---- MODULE Spec2Model ----
(***************************************************************************)
(* A model of the Catan rules engine of training/catan_env.py: the board   *)
(* topology, the game state, the legal-action enumerator and the state     *)
(* transition engine (CatanEnv.step and its _apply_* handlers).            *)
(*                                                                         *)
(* Identifiers are those of the source; indices are 0-based as in the      *)
(* source (lists are functions on 0..n-1) except where a TLA+ sequence is  *)
(* noted.  Python's None is the integer None == -1 for optional integers   *)
(* and the pair NoBuilding for an empty vertex.                            *)
(***************************************************************************)
EXTENDS Integers, Sequences, FiniteSets, TLC

(***************************************************************************)
(* Constants of the source                                                 *)
(***************************************************************************)
RESOURCES == <<"lumber", "brick", "wool", "grain", "ore">>

ResSet == {RESOURCES[i] : i \in 1..Len(RESOURCES)}

TERRAIN_TO_RESOURCE ==
    [t \in {"forest", "hills", "pasture", "fields", "mountains", "desert"} |->
        CASE t = "forest" -> "lumber"
          [] t = "hills" -> "brick"
          [] t = "pasture" -> "wool"
          [] t = "fields" -> "grain"
          [] t = "mountains" -> "ore"
          [] OTHER -> "none"]

ROAD_COST == [r \in ResSet |-> IF r \in {"lumber", "brick"} THEN 1 ELSE 0]

SETTLEMENT_COST == [r \in ResSet |-> IF r = "ore" THEN 0 ELSE 1]

CITY_COST == [r \in ResSet |-> IF r = "grain" THEN 2 ELSE IF r = "ore" THEN 3 ELSE 0]

DEV_CARD_COST == [r \in ResSet |-> IF r \in {"wool", "grain", "ore"} THEN 1 ELSE 0]

MAX_SETTLEMENTS == 5

MAX_CITIES == 4

MAX_ROADS == 15

BANK_PER_RESOURCE == 19

VP_TO_WIN == 10

MIN_LONGEST_ROAD == 5

MIN_LARGEST_ARMY == 3

STANDARD_HARBOR_TYPES ==
    <<"generic", "grain", "ore", "generic", "wool",
      "generic", "generic", "brick", "lumber">>

None == -1

NoBuilding == <<"none", None>>

Min(a, b) == IF a < b THEN a ELSE b

Max(a, b) == IF a > b THEN a ELSE b

(***************************************************************************)
(* Board topology (build_board_topology).  Pixel positions are kept exact: *)
(* with x measured in units of size*sqrt(3)/2 and y in units of size/2     *)
(* every hex centre and corner is a point of the integer lattice, and two  *)
(* corners are within the source's tolerance of 0.01 exactly when they are *)
(* the same lattice point.                                                 *)
(***************************************************************************)
STANDARD_HEX_POSITIONS ==
    << <<0, -2>>, <<1, -2>>, <<2, -2>>,
       <<-1, -1>>, <<0, -1>>, <<1, -1>>, <<2, -1>>,
       <<-2, 0>>, <<-1, 0>>, <<0, 0>>, <<1, 0>>, <<2, 0>>,
       <<-2, 1>>, <<-1, 1>>, <<0, 1>>, <<1, 1>>,
       <<-2, 2>>, <<-1, 2>>, <<0, 2>> >>

hex_to_pixel(q, r) == <<2 * q + r, 3 * r>>

\* corner i lies at angle 60*i - 30 degrees from the centre
hex_corner(c, i) ==
    CASE i = 0 -> <<c[1] + 1, c[2] - 1>>
      [] i = 1 -> <<c[1] + 1, c[2] + 1>>
      [] i = 2 -> <<c[1], c[2] + 2>>
      [] i = 3 -> <<c[1] - 1, c[2] + 1>>
      [] i = 4 -> <<c[1] - 1, c[2] - 1>>
      [] OTHER -> <<c[1], c[2] - 2>>

points_equal(a, b) == a[1] = b[1] /\ a[2] = b[2]

\* Tables are functions on 0..n-1 (the source's list indices).

\* the corners in the order the loops of steps 1/2 visit them: visit k is
\* corner k % 6 of hex k \div 6
Corners(centers) ==
    [k \in 0..(6 * Cardinality(DOMAIN centers) - 1) |-> hex_corner(centers[k \div 6], k % 6)]

\* Steps 1/2: a visited corner is appended to vertex_positions unless an
\* equal point is there already
VertexPositions(cs) ==
    LET appended == {k \in DOMAIN cs : \A j \in 0..(k - 1) : ~points_equal(cs[j], cs[k])}
    IN  [vid \in 0..(Cardinality(appended) - 1) |->
            cs[CHOOSE k \in appended : Cardinality({j \in appended : j < k}) = vid]]

\* hex_corner_vids: the vertex found (or appended) for each corner
HexVertices(centers, positions) ==
    [hid \in DOMAIN centers |->
        [i \in 0..5 |->
            CHOOSE vid \in DOMAIN positions :
                points_equal(positions[vid], hex_corner(centers[hid], i))]]

\* the pairs as they stand in the hex, not ordered
EdgeKeys_directed(hv) ==
    [k \in 0..(6 * Cardinality(DOMAIN hv) - 1) |->
        <<hv[k \div 6][k % 6], hv[k \div 6][(k + 1) % 6]>>]

\* Step 3: the keys (min, max) of consecutive vertex pairs, visit k being
\* pair k % 6 of hex k \div 6
EdgeKeys(hv) ==
    [k \in 0..(6 * Cardinality(DOMAIN hv) - 1) |->
        LET v1 == hv[k \div 6][k % 6]
            v2 == hv[k \div 6][(k + 1) % 6]
        IN  <<Min(v1, v2), Max(v1, v2)>>]

\* a key is appended to edge_endpoints unless edge_map holds it
EdgeEndpoints(keys) ==
    LET appended == {k \in DOMAIN keys : \A j \in 0..(k - 1) : keys[j] # keys[k]}
    IN  [eid \in 0..(Cardinality(appended) - 1) |->
            keys[CHOOSE k \in appended : Cardinality({j \in appended : j < k}) = eid]]

HexEdges(keys, endpoints) ==
    [hid \in 0..((Cardinality(DOMAIN keys) \div 6) - 1) |->
        [i \in 0..5 |-> CHOOSE eid \in DOMAIN endpoints : endpoints[eid] = keys[6 * hid + i]]]

\* Step 4: adjacency tables (as sets: the source's list orders are only
\* ever folded over with order-independent effects)
VertexAdjacentHexes(hv, vcount) ==
    [vid \in 0..(vcount - 1) |-> {hid \in DOMAIN hv : \E i \in 0..5 : hv[hid][i] = vid}]

VertexAdjacentEdges(endpoints, vcount) ==
    [vid \in 0..(vcount - 1) |->
        {eid \in DOMAIN endpoints : endpoints[eid][1] = vid \/ endpoints[eid][2] = vid}]

VertexAdjacentVertices(endpoints, vcount) ==
    [vid \in 0..(vcount - 1) |->
        {endpoints[eid][2] : eid \in {e \in DOMAIN endpoints : endpoints[e][1] = vid}}
            \cup {endpoints[eid][1] : eid \in {e \in DOMAIN endpoints : endpoints[e][2] = vid}}]

EdgeAdjacentEdges(endpoints, vae) ==
    [eid \in DOMAIN endpoints |->
        (vae[endpoints[eid][1]] \cup vae[endpoints[eid][2]]) \ {eid}]

BoardTopology(coords, centers, positions, hv, keys, endpoints) ==
    LET vcount == Cardinality(DOMAIN positions)
        vae == VertexAdjacentEdges(endpoints, vcount)
    IN  [hex_coords |-> coords,
         hex_centers |-> centers,
         vertex_positions |-> positions,
         vertex_count |-> vcount,
         edge_count |-> Cardinality(DOMAIN endpoints),
         vertex_adjacent_vertices |-> VertexAdjacentVertices(endpoints, vcount),
         vertex_adjacent_edges |-> vae,
         vertex_adjacent_hexes |-> VertexAdjacentHexes(hv, vcount),
         edge_endpoints |-> endpoints,
         edge_adjacent_edges |-> EdgeAdjacentEdges(endpoints, vae),
         hex_vertices |-> hv,
         hex_edges |-> HexEdges(keys, endpoints)]

build_board_topology ==
    LET coords == [hid \in 0..(Len(STANDARD_HEX_POSITIONS) - 1) |->
                       STANDARD_HEX_POSITIONS[hid + 1]]
        centers == [hid \in DOMAIN coords |-> hex_to_pixel(coords[hid][1], coords[hid][2])]
        positions == VertexPositions(Corners(centers))
        hv == HexVertices(centers, positions)
        keys == EdgeKeys(hv)
    IN  BoardTopology(coords, centers, positions, hv, keys, EdgeEndpoints(keys))

(***************************************************************************)
(* Harbors (assign_harbors).  The board centre is the lattice origin; the  *)
(* coastal edges are sorted by the angle of their midpoint, compared       *)
(* exactly: a doubled midpoint <<X, Y>> stands for the real vector         *)
(* (sqrt(3)*X, Y).  atan2 ranges over [-pi, pi]; for the one midpoint on   *)
(* the negative x axis the source's floating-point y is below zero, which  *)
(* puts that edge first (angle -pi).                                       *)
(***************************************************************************)
get_coastal_edges(topo) ==
    LET coastal == {vid \in DOMAIN topo.vertex_adjacent_hexes :
                       Cardinality(topo.vertex_adjacent_hexes[vid]) < 3}
    IN  {eid \in DOMAIN topo.edge_endpoints :
            LET v1 == topo.edge_endpoints[eid][1]
                v2 == topo.edge_endpoints[eid][2]
            IN  /\ v1 \in coastal
                /\ v2 \in coastal
                /\ Cardinality(topo.vertex_adjacent_hexes[v1]
                                 \cap topo.vertex_adjacent_hexes[v2]) = 1}

\* twice the midpoint of an edge
Midpoint2(topo, eid) ==
    LET p1 == topo.vertex_positions[topo.edge_endpoints[eid][1]]
        p2 == topo.vertex_positions[topo.edge_endpoints[eid][2]]
    IN  <<p1[1] + p2[1], p1[2] + p2[2]>>

\* 0 for an angle in [-pi, 0), 1 for an angle in [0, pi)
AngleHalf(m) == IF m[2] < 0 \/ (m[2] = 0 /\ m[1] < 0) THEN 0 ELSE 1

AngleLess(a, b) ==
    \/ AngleHalf(a) < AngleHalf(b)
    \/ /\ AngleHalf(a) = AngleHalf(b)
       /\ a[1] * b[2] - b[1] * a[2] > 0

\* the coastal edges as coastal_edges.sort(key=_angle) leaves them
SortedCoastalEdges(topo, coastal_edges) ==
    LET mid == [eid \in coastal_edges |-> Midpoint2(topo, eid)]
    IN  [idx \in 0..(Cardinality(coastal_edges) - 1) |->
            CHOOSE eid \in coastal_edges :
                Cardinality({f \in coastal_edges : AngleLess(mid[f], mid[eid])}) = idx]

assign_harbors(topo) ==
    LET sorted == SortedCoastalEdges(topo, get_coastal_edges(topo))
        total == Cardinality(DOMAIN sorted)
    IN  [i \in 0..8 |->
            [type |-> STANDARD_HARBOR_TYPES[i + 1],
             vertices |-> topo.edge_endpoints[sorted[((i * total) \div 9) % total]]]]

\* get_trade_ratio, with player_vertices a set
\* a generic harbor is looked at first
get_trade_ratio_generic_first(hs, player_vertices, resource) ==
    LET access == {i \in DOMAIN hs :
                      hs[i].vertices[1] \in player_vertices
                          \/ hs[i].vertices[2] \in player_vertices}
    IN  IF \E i \in access : hs[i].type = "generic" THEN 3
        ELSE IF \E i \in access : hs[i].type = resource THEN 2
        ELSE 4

get_trade_ratio(hs, player_vertices, resource) ==
    LET access == {i \in DOMAIN hs :
                      hs[i].vertices[1] \in player_vertices
                          \/ hs[i].vertices[2] \in player_vertices}
    IN  IF \E i \in access : hs[i].type = resource THEN 2
        ELSE IF \E i \in access : hs[i].type = "generic" THEN 3
        ELSE 4

(***************************************************************************)
(* Tiny helpers on hands (resource -> count)                               *)
(***************************************************************************)
empty_resources == [r \in ResSet |-> 0]

has_resources(hand, cost) == \A r \in ResSet : hand[r] >= cost[r]

total_resources(hand) ==
    hand["lumber"] + hand["brick"] + hand["wool"] + hand["grain"] + hand["ore"]

subtract(hand, cost) == [r \in ResSet |-> hand[r] - cost[r]]

add(hand, cost) == [r \in ResSet |-> hand[r] + cost[r]]

(***************************************************************************)
(* PlayerState and CatanState.  The engine's state is the record `state`   *)
(* (CatanEnv.state); handlers are operators from a state record to the     *)
(* state record they leave behind.                                         *)
(***************************************************************************)
PlayerState(id) ==
    [id |-> id,
     resources |-> empty_resources,
     dev_cards |-> <<>>,
     new_dev_cards |-> <<>>,
     knights_played |-> 0,
     remaining_settlements |-> MAX_SETTLEMENTS,
     remaining_cities |-> MAX_CITIES,
     remaining_roads |-> MAX_ROADS,
     has_played_dev_card_this_turn |-> FALSE]

\* a draft whose second round runs in the order of the first
get_setup_order_round_robin(player_count) ==
    [k \in 0..(2 * player_count - 1) |-> k % player_count]

\* get_setup_order: 0..N-1 followed by N-1..0, as a function on 0..2N-1
get_setup_order(player_count) ==
    [k \in 0..(2 * player_count - 1) |->
        IF k < player_count THEN k ELSE 2 * player_count - 1 - k]

Players(s) == 0..(s.player_count - 1)

Hexes(s) == DOMAIN s.hex_terrains

Vertices(s) == DOMAIN s.vertex_buildings

Edges(s) == DOMAIN s.edge_roads

HexVertexSet(s, hid) == {s.topology.hex_vertices[hid][i] : i \in 0..5}

SetMax(S) == IF S = {} THEN 0 ELSE CHOOSE x \in S : \A y \in S : y <= x

(***************************************************************************)
(* Longest road                                                            *)
(***************************************************************************)
\* a search that walks on through a vertex an opponent has built on
RECURSIVE lr_dfs_through(_, _, _, _, _)
lr_dfs_through(s, player, player_edges, vertex, visited_edges) ==
    SetMax({ LET v1 == s.topology.edge_endpoints[eid][1]
                 v2 == s.topology.edge_endpoints[eid][2]
                 next_v == IF v1 = vertex THEN v2 ELSE v1
             IN  1 + lr_dfs_through(s, player, player_edges, next_v, visited_edges \cup {eid})
             : eid \in (s.topology.vertex_adjacent_edges[vertex] \cap player_edges) \ visited_edges })

RECURSIVE lr_dfs(_, _, _, _, _)
lr_dfs(s, player, player_edges, vertex, visited_edges) ==
    SetMax({ LET v1 == s.topology.edge_endpoints[eid][1]
                 v2 == s.topology.edge_endpoints[eid][2]
                 next_v == IF v1 = vertex THEN v2 ELSE v1
                 bldg == s.vertex_buildings[next_v]
                 blocked == bldg # NoBuilding /\ bldg[2] # player
             IN  IF blocked THEN 1
                 ELSE 1 + lr_dfs(s, player, player_edges, next_v, visited_edges \cup {eid})
             : eid \in (s.topology.vertex_adjacent_edges[vertex] \cap player_edges) \ visited_edges })

calculate_longest_road(s, player) ==
    LET player_edges == {eid \in Edges(s) : s.edge_roads[eid] = player}
        start_vertices == {s.topology.edge_endpoints[eid][1] : eid \in player_edges}
                              \cup {s.topology.edge_endpoints[eid][2] : eid \in player_edges}
    IN  IF player_edges = {} THEN 0
        ELSE SetMax({lr_dfs(s, player, player_edges, sv, {}) : sv \in start_vertices})

\* first loop of update_longest_road from player pid on; acc = <<holder, length>>
RECURSIVE LongestRoadScan(_, _, _)
LongestRoadScan(s, pid, acc) ==
    IF pid = s.player_count THEN acc
    ELSE LET length == calculate_longest_road(s, pid)
         IN  IF length >= MIN_LONGEST_ROAD /\ (acc[1] = None \/ length > acc[2])
             THEN LongestRoadScan(s, pid + 1, <<pid, length>>)
             ELSE LongestRoadScan(s, pid + 1, acc)

\* the re-scan after the holder dropped below the minimum
RECURSIVE LongestRoadRescan(_, _, _)
LongestRoadRescan(s, pid, acc) ==
    IF pid = s.player_count THEN acc
    ELSE LET length == calculate_longest_road(s, pid)
         IN  IF length >= MIN_LONGEST_ROAD /\ length > acc[2]
             THEN LongestRoadRescan(s, pid + 1, <<pid, length>>)
             ELSE LongestRoadRescan(s, pid + 1, acc)

\* the first loop alone: a holder below the minimum keeps the award
update_longest_road_keeping(s) ==
    LET scan == LongestRoadScan(s, 0, <<s.longest_road_player, s.longest_road_length>>)
    IN  [s EXCEPT !.longest_road_player = scan[1], !.longest_road_length = scan[2]]

update_longest_road(s) ==
    LET scan == LongestRoadScan(s, 0, <<s.longest_road_player, s.longest_road_length>>)
        final == IF scan[1] # None /\ calculate_longest_road(s, scan[1]) < MIN_LONGEST_ROAD
                 THEN LongestRoadRescan(s, 0, <<None, 0>>)
                 ELSE scan
    IN  [s EXCEPT !.longest_road_player = final[1], !.longest_road_length = final[2]]

(***************************************************************************)
(* Largest army                                                            *)
(***************************************************************************)
RECURSIVE LargestArmyScan(_, _, _)
LargestArmyScan(s, pid, acc) ==
    IF pid = s.player_count THEN acc
    ELSE LET knights == s.players[pid].knights_played
         IN  IF knights >= MIN_LARGEST_ARMY /\ (acc[1] = None \/ knights > acc[2])
             THEN LargestArmyScan(s, pid + 1, <<pid, knights>>)
             ELSE LargestArmyScan(s, pid + 1, acc)

\* the scan started one below the stored size: a tie takes the award
update_largest_army_on_tie(s) ==
    LET scan == LargestArmyScan(s, 0, <<s.largest_army_player, s.largest_army_size - 1>>)
    IN  [s EXCEPT !.largest_army_player = scan[1], !.largest_army_size = scan[2]]

update_largest_army(s) ==
    LET scan == LargestArmyScan(s, 0, <<s.largest_army_player, s.largest_army_size>>)
    IN  [s EXCEPT !.largest_army_player = scan[1], !.largest_army_size = scan[2]]

(***************************************************************************)
(* Victory points                                                          *)
(***************************************************************************)
CountCards(cards, card_type) == Cardinality({i \in 1..Len(cards) : cards[i] = card_type})

\* victory-point cards count once they are playable
calculate_vp_playable(s, player) ==
    Cardinality({vid \in Vertices(s) : s.vertex_buildings[vid] = <<"settlement", player>>})
    + 2 * Cardinality({vid \in Vertices(s) : s.vertex_buildings[vid] = <<"city", player>>})
    + (IF s.longest_road_player = player THEN 2 ELSE 0)
    + (IF s.largest_army_player = player THEN 2 ELSE 0)
    + CountCards(s.players[player].dev_cards, "victory_point")

calculate_vp(s, player) ==
    Cardinality({vid \in Vertices(s) : s.vertex_buildings[vid] = <<"settlement", player>>})
    + 2 * Cardinality({vid \in Vertices(s) : s.vertex_buildings[vid] = <<"city", player>>})
    + (IF s.longest_road_player = player THEN 2 ELSE 0)
    + (IF s.largest_army_player = player THEN 2 ELSE 0)
    + CountCards(s.players[player].dev_cards, "victory_point")
    + CountCards(s.players[player].new_dev_cards, "victory_point")

\* the phase changes and the winner is not recorded
check_game_over_unnamed(s) ==
    IF calculate_vp(s, s.current_player) >= VP_TO_WIN
    THEN [s EXCEPT !.phase = "GAME_OVER"]
    ELSE s

check_game_over(s) ==
    IF calculate_vp(s, s.current_player) >= VP_TO_WIN
    THEN [s EXCEPT !.phase = "GAME_OVER", !.winner = s.current_player]
    ELSE s

(***************************************************************************)
(* Building / road validity helpers                                        *)
(***************************************************************************)
\* a vertex reached by an own road whoever has built on it
is_vertex_accessible_past_buildings(s, player, vertex) ==
    \/ s.vertex_buildings[vertex] # NoBuilding /\ s.vertex_buildings[vertex][2] = player
    \/ \E eid \in s.topology.vertex_adjacent_edges[vertex] : s.edge_roads[eid] = player

is_vertex_accessible(s, player, vertex) ==
    IF s.vertex_buildings[vertex] # NoBuilding
    THEN s.vertex_buildings[vertex][2] = player
    ELSE \E eid \in s.topology.vertex_adjacent_edges[vertex] : s.edge_roads[eid] = player

get_valid_road_edges_no_resource_check(s, player) ==
    IF s.players[player].remaining_roads <= 0 THEN {}
    ELSE {eid \in Edges(s) :
            /\ s.edge_roads[eid] = None
            /\ \/ is_vertex_accessible(s, player, s.topology.edge_endpoints[eid][1])
               \/ is_vertex_accessible(s, player, s.topology.edge_endpoints[eid][2])}

get_valid_road_edges(s, player) ==
    IF s.players[player].remaining_roads <= 0 THEN {}
    ELSE IF ~has_resources(s.players[player].resources, ROAD_COST) THEN {}
    ELSE get_valid_road_edges_no_resource_check(s, player)

is_valid_settlement_vertex(s, player, vid) ==
    /\ s.vertex_buildings[vid] = NoBuilding
    /\ \A adj \in s.topology.vertex_adjacent_vertices[vid] : s.vertex_buildings[adj] = NoBuilding
    /\ \E eid \in s.topology.vertex_adjacent_edges[vid] : s.edge_roads[eid] = player

get_valid_settlement_vertices(s, player) ==
    IF s.players[player].remaining_settlements <= 0 THEN {}
    ELSE IF ~has_resources(s.players[player].resources, SETTLEMENT_COST) THEN {}
    ELSE {vid \in Vertices(s) : is_valid_settlement_vertex(s, player, vid)}

get_valid_city_vertices(s, player) ==
    IF s.players[player].remaining_cities <= 0 THEN {}
    ELSE IF ~has_resources(s.players[player].resources, CITY_COST) THEN {}
    ELSE {vid \in Vertices(s) : s.vertex_buildings[vid] = <<"settlement", player>>}

\* every empty vertex, whatever stands next to it
get_valid_setup_settlement_vertices_any_empty(s) ==
    {vid \in Vertices(s) : s.vertex_buildings[vid] = NoBuilding}

get_valid_setup_settlement_vertices(s) ==
    {vid \in Vertices(s) :
        /\ s.vertex_buildings[vid] = NoBuilding
        /\ ~ \E adj \in s.topology.vertex_adjacent_vertices[vid] : s.vertex_buildings[adj] # NoBuilding}

get_valid_setup_road_edges(s) ==
    IF s.last_placed_vertex = None THEN {}
    ELSE {eid \in s.topology.vertex_adjacent_edges[s.last_placed_vertex] : s.edge_roads[eid] = None}

get_valid_robber_hexes(s) == {hid \in Hexes(s) : hid # s.robber_hex}

\* the owners around the hex who hold cards, the thief among them
get_steal_targets_with_thief(s, hex_id, thief) ==
    {s.vertex_buildings[vid][2] : vid \in
        {v \in HexVertexSet(s, hex_id) :
            /\ s.vertex_buildings[v] # NoBuilding
            /\ total_resources(s.players[s.vertex_buildings[v][2]].resources) > 0}}

get_steal_targets(s, hex_id, thief) ==
    {s.vertex_buildings[vid][2] : vid \in
        {v \in HexVertexSet(s, hex_id) :
            /\ s.vertex_buildings[v] # NoBuilding
            /\ s.vertex_buildings[v][2] # thief
            /\ total_resources(s.players[s.vertex_buildings[v][2]].resources) > 0}}

get_player_vertices(s, player) ==
    {vid \in Vertices(s) : s.vertex_buildings[vid] # NoBuilding /\ s.vertex_buildings[vid][2] = player}

get_player_trade_ratio(s, player, resource) ==
    get_trade_ratio(s.harbors, get_player_vertices(s, player), resource)

is_valid_maritime_trade(s, player, give, receive) ==
    /\ give # receive
    /\ s.players[player].resources[give] >= get_player_trade_ratio(s, player, give)
    /\ s.bank[receive] > 0

can_buy_dev_card(s, player) ==
    /\ Len(s.dev_card_deck) # 0
    /\ has_resources(s.players[player].resources, DEV_CARD_COST)

\* a card is playable whether or not one was played this turn
can_play_dev_card_again(s, player, card_type) ==
    /\ card_type # "victory_point"
    /\ \E i \in 1..Len(s.players[player].dev_cards) : s.players[player].dev_cards[i] = card_type

can_play_dev_card(s, player, card_type) ==
    /\ ~s.players[player].has_played_dev_card_this_turn
    /\ card_type # "victory_point"
    /\ \E i \in 1..Len(s.players[player].dev_cards) : s.players[player].dev_cards[i] = card_type

(***************************************************************************)
(* Resource distribution                                                   *)
(***************************************************************************)
\* a claim of one unit for a city as for a settlement
player_demand_flat(s, hid, pid) ==
    Cardinality({v \in HexVertexSet(s, hid) :
                    s.vertex_buildings[v] # NoBuilding /\ s.vertex_buildings[v][2] = pid})

\* what the buildings of player pid on hex hid claim
player_demand(s, hid, pid) ==
    Cardinality({v \in HexVertexSet(s, hid) : s.vertex_buildings[v] = <<"settlement", pid>>})
    + 2 * Cardinality({v \in HexVertexSet(s, hid) : s.vertex_buildings[v] = <<"city", pid>>})

\* a hex that pays its claims whatever the bank holds
DistributeHex_unchecked(s, dice_total, hid) ==
    LET resource == TERRAIN_TO_RESOURCE[s.hex_terrains[hid]]
        total_demand ==
            Cardinality({v \in HexVertexSet(s, hid) :
                            s.vertex_buildings[v] # NoBuilding /\ s.vertex_buildings[v][1] # "city"})
            + 2 * Cardinality({v \in HexVertexSet(s, hid) : s.vertex_buildings[v][1] = "city"})
    IN  IF s.hex_numbers[hid] # dice_total THEN s
        ELSE IF hid = s.robber_hex THEN s
        ELSE IF resource = "none" THEN s
        ELSE [s EXCEPT
                !.players = [pid \in Players(s) |->
                                [s.players[pid] EXCEPT
                                    !.resources[resource] = @ + player_demand(s, hid, pid)]],
                !.bank[resource] = @ - total_demand]

\* the body of the loop of _distribute_resources for hex hid
DistributeHex(s, dice_total, hid) ==
    LET resource == TERRAIN_TO_RESOURCE[s.hex_terrains[hid]]
        total_demand ==
            Cardinality({v \in HexVertexSet(s, hid) :
                            s.vertex_buildings[v] # NoBuilding /\ s.vertex_buildings[v][1] # "city"})
            + 2 * Cardinality({v \in HexVertexSet(s, hid) : s.vertex_buildings[v][1] = "city"})
    IN  IF s.hex_numbers[hid] # dice_total THEN s
        ELSE IF hid = s.robber_hex THEN s
        ELSE IF resource = "none" THEN s
        ELSE IF total_demand > s.bank[resource] THEN s
        ELSE [s EXCEPT
                !.players = [pid \in Players(s) |->
                                [s.players[pid] EXCEPT
                                    !.resources[resource] = @ + player_demand(s, hid, pid)]],
                !.bank[resource] = @ - total_demand]

RECURSIVE DistributeFrom(_, _, _)
DistributeFrom(s, dice_total, hid) ==
    IF hid = Cardinality(Hexes(s)) THEN s
    ELSE DistributeFrom(DistributeHex(s, dice_total, hid), dice_total, hid + 1)

distribute_resources(s, dice_total) ==
    IF dice_total = 7 THEN s ELSE DistributeFrom(s, dice_total, 0)

\* _remove_dev_card: the list without its first card of that type
remove_dev_card(cards, card_type) ==
    IF \E i \in 1..Len(cards) : cards[i] = card_type
    THEN LET idx == CHOOSE i \in 1..Len(cards) :
                        cards[i] = card_type /\ \A j \in 1..(i - 1) : cards[j] # card_type
         IN  SubSeq(cards, 1, idx - 1) \o SubSeq(cards, idx + 1, Len(cards))
    ELSE cards

(***************************************************************************)
(* Action implementations (the _apply_* methods of CatanEnv)               *)
(***************************************************************************)
\* one unit of each producing hex around the vertex, bank to player
RECURSIVE SetupGrant(_, _, _)
SetupGrant(s, pid, hids) ==
    IF hids = {} THEN s
    ELSE LET hid == CHOOSE h \in hids : TRUE
             res == TERRAIN_TO_RESOURCE[s.hex_terrains[hid]]
             s1 == IF res # "none"
                   THEN [s EXCEPT !.players[pid].resources[res] = @ + 1,
                                  !.bank[res] = @ - 1]
                   ELSE s
         IN  SetupGrant(s1, pid, hids \ {hid})

\* a setup placement that takes no settlement piece from the supply
apply_setup_settlement_uncounted(s, vertex) ==
    LET pid == s.current_player
        s1 == [s EXCEPT !.vertex_buildings[vertex] = <<"settlement", pid>>]
        s2 == IF s1.setup_round = 1
              THEN SetupGrant(s1, pid, s.topology.vertex_adjacent_hexes[vertex])
              ELSE s1
    IN  [s2 EXCEPT !.last_placed_vertex = vertex, !.phase = "SETUP_PLACE_ROAD"]

\* a setup placement that is paid in both rounds
apply_setup_settlement_both_rounds(s, vertex) ==
    LET pid == s.current_player
        s1 == [s EXCEPT !.vertex_buildings[vertex] = <<"settlement", pid>>,
                        !.players[pid].remaining_settlements = @ - 1]
        s2 == SetupGrant(s1, pid, s.topology.vertex_adjacent_hexes[vertex])
    IN  [s2 EXCEPT !.last_placed_vertex = vertex, !.phase = "SETUP_PLACE_ROAD"]

apply_setup_settlement(s, vertex) ==
    LET pid == s.current_player
        s1 == [s EXCEPT !.vertex_buildings[vertex] = <<"settlement", pid>>,
                        !.players[pid].remaining_settlements = @ - 1]
        s2 == IF s1.setup_round = 1
              THEN SetupGrant(s1, pid, s.topology.vertex_adjacent_hexes[vertex])
              ELSE s1
    IN  [s2 EXCEPT !.last_placed_vertex = vertex, !.phase = "SETUP_PLACE_ROAD"]

apply_setup_road(s, edge) ==
    LET pid == s.current_player
        s1 == [s EXCEPT !.edge_roads[edge] = pid,
                        !.players[pid].remaining_roads = @ - 1]
        order == get_setup_order(s.player_count)
        next_idx == s.setup_index + 1
    IN  IF next_idx >= 2 * s.player_count
        THEN [s1 EXCEPT !.phase = "ROLL_DICE",
                        !.current_player = 0,
                        !.last_placed_vertex = None,
                        !.turn_number = 1]
        ELSE [s1 EXCEPT !.current_player = order[next_idx],
                        !.setup_index = next_idx,
                        !.setup_round = IF next_idx >= s.player_count THEN 1 ELSE 0,
                        !.phase = "SETUP_PLACE_SETTLEMENT",
                        !.last_placed_vertex = None]

\* a hand limit that a hand of exactly seven cards is over
RECURSIVE NeedDiscard_from_seven(_, _)
NeedDiscard_from_seven(s, pid) ==
    IF pid = s.player_count THEN <<>>
    ELSE IF total_resources(s.players[pid].resources) >= 7
         THEN <<pid>> \o NeedDiscard_from_seven(s, pid + 1)
         ELSE NeedDiscard_from_seven(s, pid + 1)

\* need: the players over the hand limit, in ascending index order
RECURSIVE NeedDiscard(_, _)
NeedDiscard(s, pid) ==
    IF pid = s.player_count THEN <<>>
    ELSE IF total_resources(s.players[pid].resources) > 7
         THEN <<pid>> \o NeedDiscard(s, pid + 1)
         ELSE NeedDiscard(s, pid + 1)

\* a seven that queues the players over the limit and goes on to the robber
apply_roll_dice_on_to_robber(s, d1, d2) ==
    LET total == d1 + d2
        s1 == [s EXCEPT !.last_roll = <<d1, d2>>]
    IN  IF total = 7
        THEN [s1 EXCEPT !.phase = "MOVE_ROBBER", !.players_needing_discard = NeedDiscard(s1, 0)]
        ELSE [distribute_resources(s1, total) EXCEPT !.phase = "TRADE_BUILD_PLAY"]

\* d1, d2: the two draws of self._rng.randint(1, 7)
apply_roll_dice(s, d1, d2) ==
    LET total == d1 + d2
        s1 == [s EXCEPT !.last_roll = <<d1, d2>>]
        need == NeedDiscard(s1, 0)
    IN  IF total = 7
        THEN IF need # <<>>
             THEN [s1 EXCEPT !.phase = "DISCARD", !.players_needing_discard = need]
             ELSE [s1 EXCEPT !.phase = "MOVE_ROBBER"]
        ELSE [distribute_resources(s1, total) EXCEPT !.phase = "TRADE_BUILD_PLAY"]

\* a discard that ends the discard phase whoever is still queued
apply_discard_once(s, resources) ==
    LET pid == Head(s.players_needing_discard)
    IN  [s EXCEPT !.players[pid].resources = subtract(@, resources),
                  !.bank = add(@, resources),
                  !.players_needing_discard = Tail(@),
                  !.phase = "MOVE_ROBBER"]

apply_discard(s, resources) ==
    LET pid == Head(s.players_needing_discard)
        s1 == [s EXCEPT !.players[pid].resources = subtract(@, resources),
                        !.bank = add(@, resources),
                        !.players_needing_discard = Tail(@)]
    IN  IF s1.players_needing_discard = <<>>
        THEN [s1 EXCEPT !.phase = "MOVE_ROBBER"]
        ELSE s1

\* the robber is moved and a steal follows, whoever lives around the hex
apply_move_robber_then_steal(s, hex_id) ==
    [s EXCEPT !.robber_hex = hex_id, !.phase = "STEAL"]

apply_move_robber(s, hex_id) ==
    LET s1 == [s EXCEPT !.robber_hex = hex_id]
        targets == get_steal_targets(s1, hex_id, s1.current_player)
    IN  [s1 EXCEPT !.phase = IF targets # {} THEN "STEAL" ELSE "TRADE_BUILD_PLAY"]

\* available: each resource listed once per unit the victim holds
RECURSIVE Repeat(_, _)
Repeat(x, n) == IF n <= 0 THEN <<>> ELSE <<x>> \o Repeat(x, n - 1)

Available(v_res) ==
    Repeat("lumber", v_res["lumber"]) \o Repeat("brick", v_res["brick"])
        \o Repeat("wool", v_res["wool"]) \o Repeat("grain", v_res["grain"])
        \o Repeat("ore", v_res["ore"])

\* a steal that leaves the victim the card the thief gets
apply_steal_copying(s, victim, idx) ==
    IF victim = None THEN [s EXCEPT !.phase = "TRADE_BUILD_PLAY"]
    ELSE LET available == Available(s.players[victim].resources)
         IN  IF available = <<>> THEN [s EXCEPT !.phase = "TRADE_BUILD_PLAY"]
             ELSE [s EXCEPT !.players[s.current_player].resources[available[idx + 1]] = @ + 1,
                            !.phase = "TRADE_BUILD_PLAY"]

\* idx: the draw of self._rng.randint(0, len(available))
apply_steal(s, victim, idx) ==
    IF victim = None THEN [s EXCEPT !.phase = "TRADE_BUILD_PLAY"]
    ELSE LET available == Available(s.players[victim].resources)
         IN  IF available = <<>> THEN [s EXCEPT !.phase = "TRADE_BUILD_PLAY"]
             ELSE LET stolen == available[idx + 1]
                      s1 == [s EXCEPT !.players[victim].resources[stolen] = @ - 1]
                  IN  [s1 EXCEPT !.players[s.current_player].resources[stolen] = @ + 1,
                                 !.phase = "TRADE_BUILD_PLAY"]

\* the road is laid and the player's stock of roads stays as it was
apply_build_road_uncounted(s, player, edge, free) ==
    LET s1 == [s EXCEPT !.edge_roads[edge] = player]
    IN  IF free THEN s1
        ELSE [s1 EXCEPT !.players[player].resources = subtract(@, ROAD_COST),
                        !.bank = add(@, ROAD_COST)]

apply_build_road(s, player, edge, free) ==
    LET s1 == [s EXCEPT !.edge_roads[edge] = player,
                        !.players[player].remaining_roads = @ - 1]
    IN  IF free THEN s1
        ELSE [s1 EXCEPT !.players[player].resources = subtract(@, ROAD_COST),
                        !.bank = add(@, ROAD_COST)]

apply_build_settlement(s, vertex) ==
    LET pid == s.current_player
    IN  [s EXCEPT !.vertex_buildings[vertex] = <<"settlement", pid>>,
                  !.players[pid].remaining_settlements = @ - 1,
                  !.players[pid].resources = subtract(@, SETTLEMENT_COST),
                  !.bank = add(@, SETTLEMENT_COST)]

\* the settlement that the city replaces is not returned
apply_build_city_no_return(s, vertex) ==
    LET pid == s.current_player
    IN  [s EXCEPT !.vertex_buildings[vertex] = <<"city", pid>>,
                  !.players[pid].remaining_cities = @ - 1,
                  !.players[pid].resources = subtract(@, CITY_COST),
                  !.bank = add(@, CITY_COST)]

apply_build_city(s, vertex) ==
    LET pid == s.current_player
    IN  [s EXCEPT !.vertex_buildings[vertex] = <<"city", pid>>,
                  !.players[pid].remaining_cities = @ - 1,
                  !.players[pid].remaining_settlements = @ + 1,
                  !.players[pid].resources = subtract(@, CITY_COST),
                  !.bank = add(@, CITY_COST)]

\* a purchase that checks for victory as soon as the card is drawn
apply_buy_dev_card_then_check(s) ==
    LET pid == s.current_player
        card == s.dev_card_deck[Len(s.dev_card_deck)]
    IN  check_game_over(
            [s EXCEPT !.dev_card_deck = SubSeq(@, 1, Len(@) - 1),
                      !.players[pid].resources = subtract(@, DEV_CARD_COST),
                      !.bank = add(@, DEV_CARD_COST),
                      !.players[pid].new_dev_cards = Append(@, card)])

\* the deck is drawn from its end
apply_buy_dev_card(s) ==
    LET pid == s.current_player
        card == s.dev_card_deck[Len(s.dev_card_deck)]
    IN  [s EXCEPT !.dev_card_deck = SubSeq(@, 1, Len(@) - 1),
                  !.players[pid].resources = subtract(@, DEV_CARD_COST),
                  !.bank = add(@, DEV_CARD_COST),
                  !.players[pid].new_dev_cards = Append(@, card)]

\* the knight is played and the award is left as it stands
apply_play_knight_unawarded(s) ==
    LET pid == s.current_player
    IN  [s EXCEPT !.players[pid].dev_cards = remove_dev_card(@, "knight"),
                  !.players[pid].knights_played = @ + 1,
                  !.players[pid].has_played_dev_card_this_turn = TRUE,
                  !.phase = "MOVE_ROBBER"]

apply_play_knight(s) ==
    LET pid == s.current_player
        s1 == [s EXCEPT !.players[pid].dev_cards = remove_dev_card(@, "knight"),
                        !.players[pid].knights_played = @ + 1,
                        !.players[pid].has_played_dev_card_this_turn = TRUE]
    IN  [update_largest_army(s1) EXCEPT !.phase = "MOVE_ROBBER"]

apply_play_road_building(s) ==
    LET pid == s.current_player
        s1 == [s EXCEPT !.players[pid].dev_cards = remove_dev_card(@, "road_building"),
                        !.players[pid].has_played_dev_card_this_turn = TRUE]
        roads_to_place == Min(2, s1.players[pid].remaining_roads)
    IN  IF roads_to_place = 0 THEN s1
        ELSE [s1 EXCEPT !.phase = "ROAD_BUILDING_PLACE",
                        !.road_building_roads_left = roads_to_place]

\* a placement that is paid for like a built road
apply_place_road_building_road_paid(s, edge) ==
    LET pid == s.current_player
        s1 == apply_build_road(s, pid, edge, FALSE)
        s2 == [s1 EXCEPT !.road_building_roads_left = @ - 1]
        s3 == IF s2.road_building_roads_left <= 0
              THEN [s2 EXCEPT !.phase = "TRADE_BUILD_PLAY"]
              ELSE IF get_valid_road_edges_no_resource_check(s2, pid) = {}
                   THEN [s2 EXCEPT !.phase = "TRADE_BUILD_PLAY",
                                   !.road_building_roads_left = 0]
                   ELSE s2
    IN  update_longest_road(s3)

apply_place_road_building_road(s, edge) ==
    LET pid == s.current_player
        s1 == apply_build_road(s, pid, edge, TRUE)
        s2 == [s1 EXCEPT !.road_building_roads_left = @ - 1]
        s3 == IF s2.road_building_roads_left <= 0
              THEN [s2 EXCEPT !.phase = "TRADE_BUILD_PLAY"]
              ELSE IF get_valid_road_edges_no_resource_check(s2, pid) = {}
                   THEN [s2 EXCEPT !.phase = "TRADE_BUILD_PLAY",
                                   !.road_building_roads_left = 0]
                   ELSE s2
    IN  update_longest_road(s3)

apply_play_year_of_plenty(s) ==
    LET pid == s.current_player
    IN  [s EXCEPT !.players[pid].dev_cards = remove_dev_card(@, "year_of_plenty"),
                  !.players[pid].has_played_dev_card_this_turn = TRUE,
                  !.phase = "YEAR_OF_PLENTY_PICK"]

apply_pick_yop(s, r1, r2) ==
    LET pid == s.current_player
        s1 == [s EXCEPT !.players[pid].resources[r1] = @ + 1, !.bank[r1] = @ - 1]
    IN  [s1 EXCEPT !.players[pid].resources[r2] = @ + 1,
                   !.bank[r2] = @ - 1,
                   !.phase = "TRADE_BUILD_PLAY"]

apply_play_monopoly(s) ==
    LET pid == s.current_player
    IN  [s EXCEPT !.players[pid].dev_cards = remove_dev_card(@, "monopoly"),
                  !.players[pid].has_played_dev_card_this_turn = TRUE,
                  !.phase = "MONOPOLY_PICK"]

RECURSIVE SumResource(_, _, _)
SumResource(s, resource, pids) ==
    IF pids = {} THEN 0
    ELSE LET i == CHOOSE x \in pids : TRUE
         IN  s.players[i].resources[resource] + SumResource(s, resource, pids \ {i})

\* a monopoly whose victims keep the cards they hand over
apply_pick_monopoly_keeping(s, resource) ==
    LET pid == s.current_player
        total_stolen == SumResource(s, resource, Players(s) \ {pid})
    IN  [s EXCEPT !.players[pid].resources[resource] = @ + total_stolen,
                  !.phase = "TRADE_BUILD_PLAY"]

apply_pick_monopoly(s, resource) ==
    LET pid == s.current_player
        total_stolen == SumResource(s, resource, Players(s) \ {pid})
    IN  [s EXCEPT
            !.players = [i \in Players(s) |->
                            IF i = pid
                            THEN [s.players[i] EXCEPT !.resources[resource] = @ + total_stolen]
                            ELSE IF s.players[i].resources[resource] > 0
                                 THEN [s.players[i] EXCEPT !.resources[resource] = 0]
                                 ELSE s.players[i]],
            !.phase = "TRADE_BUILD_PLAY"]

apply_maritime_trade(s, give, receive) ==
    LET pid == s.current_player
        ratio == get_player_trade_ratio(s, pid, give)
        s1 == [s EXCEPT !.players[pid].resources[give] = @ - ratio,
                        !.bank[give] = @ + ratio]
    IN  [s1 EXCEPT !.players[pid].resources[receive] = @ + 1,
                   !.bank[receive] = @ - 1]

\* the played-this-turn flag is left as it is
apply_end_turn_flagged(s) ==
    LET pid == s.current_player
        s1 == [s EXCEPT !.players[pid].dev_cards = @ \o s.players[pid].new_dev_cards,
                        !.players[pid].new_dev_cards = <<>>]
        s2 == check_game_over(s1)
    IN  IF s2.phase = "GAME_OVER" THEN s2
        ELSE [s2 EXCEPT !.current_player = (pid + 1) % s.player_count,
                        !.turn_number = @ + 1,
                        !.last_roll = <<>>,
                        !.phase = "ROLL_DICE"]

apply_end_turn(s) ==
    LET pid == s.current_player
        s1 == [s EXCEPT !.players[pid].dev_cards = @ \o s.players[pid].new_dev_cards,
                        !.players[pid].new_dev_cards = <<>>,
                        !.players[pid].has_played_dev_card_this_turn = FALSE]
        s2 == check_game_over(s1)
    IN  IF s2.phase = "GAME_OVER" THEN s2
        ELSE [s2 EXCEPT !.current_player = (pid + 1) % s.player_count,
                        !.turn_number = @ + 1,
                        !.last_roll = <<>>,
                        !.phase = "ROLL_DICE"]

(***************************************************************************)
(* Legal action enumerator.  An action is the tuple the source uses:       *)
(* <<type>>, <<type, index>>, <<type, r1, r2>> or                          *)
(* <<"DISCARD_RESOURCES", l, b, w, g, o>>.                                 *)
(***************************************************************************)
\* the cards of the resources after index j only
SumFrom_after(hand, j) ==
    LET h(i) == IF i > j THEN hand[RESOURCES[i + 1]] ELSE 0
    IN  h(0) + h(1) + h(2) + h(3) + h(4)

SumFrom(hand, j) ==
    LET h(i) == IF i >= j THEN hand[RESOURCES[i + 1]] ELSE 0
    IN  h(0) + h(1) + h(2) + h(3) + h(4)

\* _enumerate_discard: _recurse and its loop over take, as the list of
\* results in the order the source appends them
RECURSIVE recurse(_, _, _, _)
RECURSIVE TakeLoop(_, _, _, _, _)
recurse(hand, idx, remaining, chosen) ==
    IF idx = Len(RESOURCES)
    THEN IF remaining = 0 THEN << <<"DISCARD_RESOURCES">> \o chosen >> ELSE <<>>
    ELSE TakeLoop(hand, idx, remaining, chosen, 0)

TakeLoop(hand, idx, remaining, chosen, take) ==
    LET max_take == Min(hand[RESOURCES[idx + 1]], remaining)
        left_after == remaining - take
        max_possible == SumFrom(hand, idx + 1)
    IN  IF take > max_take THEN <<>>
        ELSE (IF left_after > max_possible THEN <<>>
              ELSE recurse(hand, idx + 1, left_after, Append(chosen, take)))
             \o TakeLoop(hand, idx, remaining, chosen, take + 1)

enumerate_discard(hand, count) == recurse(hand, 0, count, <<>>)

SeqToSet(q) == {q[i] : i \in 1..Len(q)}

trade_build_play_actions(s) ==
    LET pid == s.current_player
    IN  {<<"BUILD_ROAD", eid>> : eid \in get_valid_road_edges(s, pid)}
        \cup {<<"BUILD_SETTLEMENT", vid>> : vid \in get_valid_settlement_vertices(s, pid)}
        \cup {<<"BUILD_CITY", vid>> : vid \in get_valid_city_vertices(s, pid)}
        \cup (IF can_buy_dev_card(s, pid) THEN {<<"BUY_DEV_CARD">>} ELSE {})
        \cup (IF can_play_dev_card(s, pid, "knight") THEN {<<"PLAY_KNIGHT">>} ELSE {})
        \cup (IF can_play_dev_card(s, pid, "road_building")
              THEN {<<"PLAY_ROAD_BUILDING">>} ELSE {})
        \cup (IF can_play_dev_card(s, pid, "year_of_plenty")
              THEN {<<"PLAY_YEAR_OF_PLENTY">>} ELSE {})
        \cup (IF can_play_dev_card(s, pid, "monopoly") THEN {<<"PLAY_MONOPOLY">>} ELSE {})
        \cup {<<"MARITIME_TRADE", give, receive>> : <<give, receive>> \in
                {gr \in ResSet \X ResSet : is_valid_maritime_trade(s, pid, gr[1], gr[2])}}
        \cup {<<"END_TURN">>}

\* the list returned by get_legal_actions, as a set
get_legal_actions(s) ==
    CASE s.phase = "GAME_OVER" -> {}
      [] s.phase = "SETUP_PLACE_SETTLEMENT" ->
            {<<"PLACE_SETUP_SETTLEMENT", v>> : v \in get_valid_setup_settlement_vertices(s)}
      [] s.phase = "SETUP_PLACE_ROAD" ->
            {<<"PLACE_SETUP_ROAD", e>> : e \in get_valid_setup_road_edges(s)}
      [] s.phase = "ROLL_DICE" -> {<<"ROLL_DICE">>}
      [] s.phase = "DISCARD" ->
            LET p == s.players[Head(s.players_needing_discard)]
            IN  SeqToSet(enumerate_discard(p.resources, total_resources(p.resources) \div 2))
      [] s.phase = "MOVE_ROBBER" -> {<<"MOVE_ROBBER", h>> : h \in get_valid_robber_hexes(s)}
      [] s.phase = "STEAL" ->
            LET targets == get_steal_targets(s, s.robber_hex, s.current_player)
            IN  IF targets = {} THEN {<<"STEAL_RESOURCE", None>>}
                ELSE {<<"STEAL_RESOURCE", t>> : t \in targets}
      [] s.phase = "TRADE_BUILD_PLAY" -> trade_build_play_actions(s)
      [] s.phase = "ROAD_BUILDING_PLACE" ->
            {<<"PLACE_ROAD_BUILDING_ROAD", e>> : e \in
                get_valid_road_edges_no_resource_check(s, s.current_player)}
      [] s.phase = "YEAR_OF_PLENTY_PICK" ->
            {<<"PICK_YEAR_OF_PLENTY_RESOURCES", RESOURCES[i], RESOURCES[j]>> : <<i, j>> \in
                {ij \in (1..5) \X (1..5) :
                    /\ ij[1] <= ij[2]
                    /\ IF ij[1] = ij[2] THEN s.bank[RESOURCES[ij[1]]] >= 2
                       ELSE s.bank[RESOURCES[ij[1]]] >= 1 /\ s.bank[RESOURCES[ij[2]]] >= 1}}
      [] s.phase = "MONOPOLY_PICK" -> {<<"PICK_MONOPOLY_RESOURCE", r>> : r \in ResSet}
      [] OTHER -> {}

\* the current player in every phase
get_acting_player_current(s) == s.current_player

get_acting_player(s) ==
    IF s.phase = "DISCARD" /\ s.players_needing_discard # <<>>
    THEN Head(s.players_needing_discard)
    ELSE s.current_player

(***************************************************************************)
(* CatanEnv.step: the handler for the action's type is applied to a copy   *)
(* of the state.  rnd holds the numbers the handler draws from self._rng:  *)
(* <<d1, d2>> for ROLL_DICE, <<idx>> for STEAL_RESOURCE.                   *)
(***************************************************************************)
ActionTypes ==
    {"PLACE_SETUP_SETTLEMENT", "PLACE_SETUP_ROAD", "ROLL_DICE", "DISCARD_RESOURCES",
     "MOVE_ROBBER", "STEAL_RESOURCE", "BUILD_ROAD", "BUILD_SETTLEMENT", "BUILD_CITY",
     "BUY_DEV_CARD", "PLAY_KNIGHT", "PLAY_ROAD_BUILDING", "PLACE_ROAD_BUILDING_ROAD",
     "PLAY_YEAR_OF_PLENTY", "PICK_YEAR_OF_PLENTY_RESOURCES", "PLAY_MONOPOLY",
     "PICK_MONOPOLY_RESOURCE", "MARITIME_TRADE", "END_TURN"}

step(s, action, rnd) ==
    LET action_type == action[1]
    IN  CASE action_type = "PLACE_SETUP_SETTLEMENT" -> apply_setup_settlement(s, action[2])
          [] action_type = "PLACE_SETUP_ROAD" -> apply_setup_road(s, action[2])
          [] action_type = "ROLL_DICE" -> apply_roll_dice(s, rnd[1], rnd[2])
          [] action_type = "DISCARD_RESOURCES" ->
                apply_discard(s, [r \in ResSet |->
                    action[1 + CHOOSE i \in 1..5 : RESOURCES[i] = r]])
          [] action_type = "MOVE_ROBBER" -> apply_move_robber(s, action[2])
          [] action_type = "STEAL_RESOURCE" -> apply_steal(s, action[2], rnd[1])
          [] action_type = "BUILD_ROAD" ->
                update_longest_road(apply_build_road(s, s.current_player, action[2], FALSE))
          [] action_type = "BUILD_SETTLEMENT" ->
                update_longest_road(apply_build_settlement(s, action[2]))
          [] action_type = "BUILD_CITY" -> apply_build_city(s, action[2])
          [] action_type = "BUY_DEV_CARD" -> apply_buy_dev_card(s)
          [] action_type = "PLAY_KNIGHT" -> apply_play_knight(s)
          [] action_type = "PLAY_ROAD_BUILDING" -> apply_play_road_building(s)
          [] action_type = "PLACE_ROAD_BUILDING_ROAD" ->
                apply_place_road_building_road(s, action[2])
          [] action_type = "PLAY_YEAR_OF_PLENTY" -> apply_play_year_of_plenty(s)
          [] action_type = "PICK_YEAR_OF_PLENTY_RESOURCES" ->
                apply_pick_yop(s, action[2], action[3])
          [] action_type = "PLAY_MONOPOLY" -> apply_play_monopoly(s)
          [] action_type = "PICK_MONOPOLY_RESOURCE" -> apply_pick_monopoly(s, action[2])
          [] action_type = "MARITIME_TRADE" -> apply_maritime_trade(s, action[2], action[3])
          [] action_type = "END_TURN" -> apply_end_turn(s)
          [] OTHER -> s

\* step raises ValueError("Unknown action type") when no branch matches; the
\* handlers are entered without a look at the phase or at get_legal_actions
step_raises(action) == action[1] \notin ActionTypes

\* what a call of step hands back beside the state: reward, done and info
\* (info as a set of <<key, value>> pairs); nothing if it raises
step_returns(s1) ==
    [reward |-> 0,
     done |-> s1.phase = "GAME_OVER",
     info |-> IF s1.phase = "GAME_OVER" THEN {<<"winner", s1.winner>>} ELSE {}]

\* the draws the handler of the action can make in state s
RandomDraws(s, action) ==
    CASE action[1] = "ROLL_DICE" -> (1..6) \X (1..6)
      [] action[1] = "STEAL_RESOURCE" /\ action[2] # None ->
            IF total_resources(s.players[action[2]].resources) = 0 THEN {<<0>>}
            ELSE {<<idx>> : idx \in 0..(total_resources(s.players[action[2]].resources) - 1)}
      [] OTHER -> {<<0>>}

(***************************************************************************)
(* reset().  The three shuffles of reset (terrain, number tokens, dev-card *)
(* deck) are drawn from small sets of outcomes: Boards and Decks.          *)
(***************************************************************************)
TERRAIN_DISTRIBUTION ==
    <<"forest", "forest", "forest", "forest",
      "hills", "hills", "hills",
      "pasture", "pasture", "pasture", "pasture",
      "fields", "fields", "fields", "fields",
      "mountains", "mountains", "mountains",
      "desert">>

NUMBER_TOKEN_DISTRIBUTION == <<2, 3, 3, 4, 4, 5, 5, 6, 6, 8, 8, 9, 9, 10, 10, 11, 11, 12>>

DEV_CARD_DISTRIBUTION ==
    [i \in 1..25 |->
        IF i <= 14 THEN "knight"
        ELSE IF i <= 19 THEN "victory_point"
        ELSE IF i <= 21 THEN "road_building"
        ELSE IF i <= 23 THEN "year_of_plenty"
        ELSE "monopoly"]

\* q is a shuffle of p: the same length and the same count of every value
IsShuffleOf(q, p) ==
    /\ Len(q) = Len(p)
    /\ \A x \in SeqToSet(p) \cup SeqToSet(q) :
          Cardinality({i \in 1..Len(q) : q[i] = x}) = Cardinality({i \in 1..Len(p) : p[i] = x})

\* hex_numbers as reset builds it: the shuffled tokens in order over the
\* hexes that are not the desert, None on the desert
HexNumbers(terrains, numbers) ==
    [hid \in 0..(Len(terrains) - 1) |->
        IF terrains[hid + 1] = "desert" THEN None
        ELSE numbers[Cardinality({h \in 0..hid : terrains[h + 1] # "desert"})]]

\* CatanState(): the state CatanEnv.__init__ stores, which reset replaces
CatanState ==
    [phase |-> "PRE_GAME",
     current_player |-> 0,
     player_count |-> 4,
     turn_number |-> 0,
     topology |-> None,
     hex_terrains |-> <<>>,
     hex_numbers |-> <<>>,
     vertex_buildings |-> <<>>,
     edge_roads |-> <<>>,
     harbors |-> <<>>,
     robber_hex |-> 0,
     players |-> <<>>,
     dev_card_deck |-> <<>>,
     bank |-> [r \in ResSet |-> BANK_PER_RESOURCE],
     longest_road_player |-> None,
     longest_road_length |-> 0,
     largest_army_player |-> None,
     largest_army_size |-> 0,
     last_roll |-> <<>>,
     setup_round |-> 0,
     setup_index |-> 0,
     players_needing_discard |-> <<>>,
     road_building_roads_left |-> 0,
     last_placed_vertex |-> None,
     winner |-> None]

\* the CatanState that reset constructs
NewState(player_count, topo, terrains, numbers, deck) ==
    [phase |-> "SETUP_PLACE_SETTLEMENT",
     current_player |-> 0,
     player_count |-> player_count,
     turn_number |-> 0,
     topology |-> topo,
     hex_terrains |-> [hid \in 0..(Len(terrains) - 1) |-> terrains[hid + 1]],
     hex_numbers |-> HexNumbers(terrains, numbers),
     vertex_buildings |-> [vid \in 0..(topo.vertex_count - 1) |-> NoBuilding],
     edge_roads |-> [eid \in 0..(topo.edge_count - 1) |-> None],
     harbors |-> assign_harbors(topo),
     robber_hex |-> (CHOOSE i \in 1..Len(terrains) : terrains[i] = "desert") - 1,
     players |-> [i \in 0..(player_count - 1) |-> PlayerState(i)],
     dev_card_deck |-> deck,
     bank |-> [r \in ResSet |-> BANK_PER_RESOURCE],
     longest_road_player |-> None,
     longest_road_length |-> 0,
     largest_army_player |-> None,
     largest_army_size |-> 0,
     last_roll |-> <<>>,
     setup_round |-> 0,
     setup_index |-> 0,
     players_needing_discard |-> <<>>,
     road_building_roads_left |-> 0,
     last_placed_vertex |-> None,
     winner |-> None]

reset(player_count, terrains, numbers, deck) ==
    NewState(player_count, build_board_topology, terrains, numbers, deck)

(***************************************************************************)
(* The environment and its caller.  `state` is CatanEnv.state.  `caller`   *)
(* names the bounded driver of the run: the outcome of reset's shuffles,   *)
(* the dice outcomes considered at each turn and the menu of actions the   *)
(* caller picks from at each draft slot and at each turn.  `call` is the   *)
(* last call of step as the caller saw it: the action passed, whether it   *)
(* came from get_legal_actions, whether step raised, and what it returned. *)
(* `held` is the object reset returned, as a caller that has kept the      *)
(* reference sees it now.  `args` and `result` belong to a call of one of   *)
(* the module's functions made outside step: the arguments passed, and the *)
(* value returned (<<v>>, or <<>> while there is no such call).            *)
(***************************************************************************)
VARIABLES state, caller, call, held, args, result

vars == <<state, caller, call, held, args, result>>

\* a copy that hands over its bank as well
CopySharedFields_and_bank == {"topology", "hex_terrains", "hex_numbers", "harbors", "bank"}

\* CatanState.copy: the containers the copy holds by reference to those of
\* the original; it builds the other containers anew
CopySharedFields == {"topology", "hex_terrains", "hex_numbers", "harbors"}

\* PlayerState.copy: it builds resources, dev_cards and new_dev_cards anew
PlayerCopySharedFields == {}

\* What the object `prior` holds once step has written s1 into a copy made
\* of it, directly or through further copies: a container the copies share
\* with it is one object, and so holds what s1 holds.
prior_state_after(prior, s1) ==
    [f \in DOMAIN prior |->
        IF f \in CopySharedFields THEN s1[f]
        ELSE IF f = "players"
        THEN [p \in DOMAIN prior.players |->
                [g \in DOMAIN prior.players[p] |->
                    IF g \in PlayerCopySharedFields
                    THEN s1.players[p][g]
                    ELSE prior.players[p][g]]]
        ELSE prior[f]]

NoCall ==
    [action |-> <<>>, legal |-> TRUE, raised |-> FALSE, reward |-> 0, done |-> FALSE, info |-> {}]

\* the record of a call of step that left state s1 behind
Called(action, legal, s1) ==
    IF step_raises(action)
    THEN [action |-> action, legal |-> legal, raised |-> TRUE,
          reward |-> 0, done |-> FALSE, info |-> {}]
    ELSE [action |-> action, legal |-> legal, raised |-> FALSE,
          reward |-> step_returns(s1).reward, done |-> step_returns(s1).done,
          info |-> step_returns(s1).info]

\* Shuffle outcomes: terrains by hex id, number tokens in the order reset
\* hands them to the hexes that are not the desert, and a deck (drawn from
\* its end).
TerrainsA ==
    <<"forest", "hills", "forest",
      "pasture", "pasture", "fields", "mountains",
      "desert", "fields", "mountains", "hills", "pasture",
      "hills", "pasture", "forest", "fields",
      "forest", "fields", "mountains">>

NumbersA == <<2, 3, 3, 4, 8, 8, 6, 5, 6, 9, 4, 9, 5, 10, 10, 11, 11, 12>>

\* the deck whose cards of type `first` are drawn first: the other cards in
\* the order of DEV_CARD_DISTRIBUTION, then those of type `first`
DeckDrawing(first) ==
    LET Other(x) == x # first
        rest == SelectSeq(DEV_CARD_DISTRIBUTION, Other)
    IN  [i \in 1..Len(DEV_CARD_DISTRIBUTION) |-> IF i <= Len(rest) THEN rest[i] ELSE first]

\* the pair of dice considered for a total
Pair(total) == IF total <= 7 THEN <<1, total - 1>> ELSE <<total - 6, 6>>

\* one set of dice pairs per turn, from one set of totals per turn
DiceOf(totals) == [t \in 1..Len(totals) |-> {Pair(x) : x \in totals[t]}]

\* menu m on the turns of the players in ps (player p moves on the turns t
\* with (t - 1) % n = p), the empty menu on the other turns
OnTurnsOf(ps, n, m, turns) == [t \in 1..turns |-> IF ((t - 1) % n) \in ps THEN m ELSE {}]

PS(v) == <<"PLACE_SETUP_SETTLEMENT", v>>

PR(e) == <<"PLACE_SETUP_ROAD", e>>

\* a fixed draft for three players: player 0 on vertices 19 and 31, player 1
\* on 8 and 30, player 2 on 20 and 43
SetupFixed3 ==
    <<{PS(19), PR(22)}, {PS(8), PR(7)}, {PS(20), PR(24)},
      {PS(43), PR(56)}, {PS(30), PR(37)}, {PS(31), PR(39)}>>

WinTurns == 13

\* player 0 upgrades both settlements, joins its roads to a road of five
\* and buys victory-point cards; the others only roll and end their turns
ScenarioWin ==
    [name |-> "win",
     player_count |-> 3,
     terrains |-> TerrainsA,
     numbers |-> NumbersA,
     deck |-> DeckDrawing("victory_point"),
     setup |-> SetupFixed3,
     dice |-> DiceOf(<<{6}, {5}, {5}, {6}, {5}, {6}, {5}, {9}, {10}, {8}, {6}, {5}, {8}>>),
     menu |-> OnTurnsOf({0}, 3,
                 {<<"BUILD_CITY", 19>>, <<"BUILD_CITY", 31>>, <<"BUILD_ROAD", 26>>,
                  <<"BUILD_ROAD", 40>>, <<"BUILD_ROAD", 41>>, <<"BUY_DEV_CARD">>},
                 WinTurns)]

\* the legal roads among these are offered next to the settlements
Slot(vs, es) == {PS(v) : v \in vs} \cup {PR(e) : e \in es}

\* a draft of three players with choices, among them vertices next to
\* vertices that may be taken already and, for the last settlement, vertex
\* 27, which touches the desert only
ScenarioDraft3 ==
    [name |-> "draft3",
     player_count |-> 3,
     terrains |-> TerrainsA,
     numbers |-> NumbersA,
     deck |-> DeckDrawing("victory_point"),
     setup |-> <<Slot({19, 18}, {22, 23, 26}), Slot({18, 8, 30}, {7, 37, 38}),
                 Slot({20, 21}, {24, 25, 26}), Slot({43, 21, 32}, {56, 39, 40}),
                 Slot({30, 29, 41}, {37, 36, 53}),
                 Slot({31, 32, 44, 27}, {39, 40, 41, 57, 33})>>,
     dice |-> <<>>,
     menu |-> <<>>]

\* a draft of four players, then one roll: a 6, an 8 or a 7 with no hand
\* above seven cards
ScenarioDraft4 ==
    [name |-> "draft4",
     player_count |-> 4,
     terrains |-> TerrainsA,
     numbers |-> NumbersA,
     deck |-> DeckDrawing("victory_point"),
     setup |-> <<Slot({19}, {22}), Slot({8, 18}, {7, 8}), Slot({20, 21}, {24}),
                 Slot({43}, {56, 57}), Slot({41, 44}, {53, 54}), Slot({33, 31}, {42, 44, 40}),
                 Slot({30}, {37, 38}), Slot({31, 32, 29}, {39, 41})>>,
     dice |-> DiceOf(<<{6, 8, 7}>>),
     menu |-> <<{}>>]

MR(h) == <<"MOVE_ROBBER", h>>

\* five rolls that fill the hands, then a 7 on turn 6: two hands are above
\* seven cards and one holds exactly seven
ScenarioRobber ==
    [name |-> "robber",
     player_count |-> 3,
     terrains |-> TerrainsA,
     numbers |-> NumbersA,
     deck |-> DeckDrawing("victory_point"),
     setup |-> SetupFixed3,
     dice |-> DiceOf(<<{6}, {6}, {8}, {8}, {10, 5}, {7}>>),
     menu |-> <<{}, {}, {}, {}, {}, {MR(4), MR(9), MR(0)}>>]

\* the draft of the development-card scenarios: player 0 is granted wool,
\* grain and ore (vertex 19) and has a road from 31 to 32
SetupDev ==
    <<{PS(31), PR(40)}, {PS(8), PR(7)}, {PS(20), PR(24)},
      {PS(43), PR(56)}, {PS(30), PR(37)}, {PS(19), PR(22)}>>

PlayOf(card) ==
    CASE card = "knight" -> <<"PLAY_KNIGHT">>
      [] card = "road_building" -> <<"PLAY_ROAD_BUILDING">>
      [] card = "year_of_plenty" -> <<"PLAY_YEAR_OF_PLENTY">>
      [] card = "monopoly" -> <<"PLAY_MONOPOLY">>

\* what the caller does once the card is played
FollowUp(card) ==
    CASE card = "knight" -> {MR(4), MR(5), MR(0), MR(9)}
      [] card = "road_building" ->
            {<<"PLACE_ROAD_BUILDING_ROAD", e>> : e \in {53, 41, 54, 23, 39, 25}}
                \cup {<<"BUILD_ROAD", 39>>}
      [] card = "year_of_plenty" ->
            {<<"PICK_YEAR_OF_PLENTY_RESOURCES", "lumber", "brick">>,
             <<"PICK_YEAR_OF_PLENTY_RESOURCES", "lumber", "lumber">>,
             <<"PICK_YEAR_OF_PLENTY_RESOURCES", "grain", "ore">>}
      [] card = "monopoly" -> {<<"PICK_MONOPOLY_RESOURCE", r>> : r \in ResSet}

\* player 0 buys the card on turn 1, plays it on turn 4, builds a road and
\* trades ore with the bank, and settles vertex 41 on turn 7; with the
\* road-building card its roads 39 and 25 lead from vertex 31 to vertex 20,
\* the settlement of player 2
ScenarioDev(card) ==
    [name |-> card,
     player_count |-> 3,
     terrains |-> TerrainsA,
     numbers |-> NumbersA,
     deck |-> DeckDrawing(card),
     setup |-> SetupDev,
     dice |-> DiceOf(<<{6, 8}, {10, 11}, {9, 5}, {6}, {10}, {9}, {8}>>),
     menu |-> <<{<<"BUY_DEV_CARD">>}, {}, {},
                {PlayOf(card), <<"BUILD_ROAD", 53>>,
                 <<"MARITIME_TRADE", "ore", "grain">>, <<"MARITIME_TRADE", "ore", "wool">>}
                    \cup FollowUp(card),
                {}, {},
                {<<"BUILD_SETTLEMENT", 41>>, <<"BUILD_ROAD", 53>>, <<"BUILD_ROAD", 41>>,
                 <<"MARITIME_TRADE", "ore", "grain">>}>>]

ShortageTurns == 13

\* every roll is a 6, which pays ore from two hexes until the bank runs out
\* of it; player 0 may give ore back to the bank for grain
ScenarioShortage ==
    [name |-> "shortage",
     player_count |-> 3,
     terrains |-> TerrainsA,
     numbers |-> NumbersA,
     deck |-> DeckDrawing("victory_point"),
     setup |-> SetupFixed3,
     dice |-> [t \in 1..ShortageTurns |-> {Pair(6)}],
     menu |-> OnTurnsOf({0}, 3, {<<"MARITIME_TRADE", "ore", "grain">>, <<"END_TURN">>},
                        ShortageTurns)]

RoadsTurns == 11

\* a second shuffle: player 0 (vertices 19, 32) is paid lumber and brick by
\* a 6 and a 9, player 1 (vertices 25, 39) by an 8, and wool and grain by a 5
TerrainsB ==
    <<"pasture", "fields", "mountains",
      "pasture", "forest", "fields", "mountains",
      "pasture", "fields", "hills", "desert", "pasture",
      "forest", "forest", "mountains", "fields",
      "hills", "forest", "hills">>

NumbersB == <<2, 3, 3, 4, 9, 4, 10, 5, 5, 6, 10, 8, 6, 11, 11, 8, 9, 12>>

BR(e) == <<"BUILD_ROAD", e>>

\* player 0 builds a road of six edges from vertex 19 to vertex 51; player 1
\* builds towards it from vertex 39 and may settle on it, at vertex 47 (which
\* leaves player 0 a road of five) or at vertex 42 (which leaves four)
ScenarioRoads ==
    [name |-> "roads",
     player_count |-> 3,
     terrains |-> TerrainsB,
     numbers |-> NumbersB,
     deck |-> DeckDrawing("victory_point"),
     setup |-> <<{PS(19), PR(36)}, {PS(25), PR(32)}, {PS(6), PR(6)},
                 {PS(11), PR(12)}, {PS(39), PR(51)}, {PS(32), PR(41)}>>,
     dice |-> [t \in 1..RoadsTurns |->
                 {Pair(IF t <= 2 THEN 6 ELSE IF t = 3 THEN 9 ELSE IF t = 8 THEN 5 ELSE 8)}],
     menu |-> [t \in 1..RoadsTurns |->
                 CASE t % 3 = 1 -> {BR(53), BR(54), BR(62), BR(68)}
                   [] t % 3 = 2 -> {BR(52), BR(65), BR(64), BR(63), BR(50), BR(55), BR(31),
                                    <<"BUILD_SETTLEMENT", 47>>, <<"BUILD_SETTLEMENT", 42>>}
                   [] OTHER -> {}]]

ArmyTurns == 14

\* a third shuffle: player 0 (vertex 19) is paid wool and grain by a 6 and
\* ore by a 5, player 1 (vertex 43) wool and grain by an 8 and ore by a 5
TerrainsC ==
    <<"forest", "hills", "forest",
      "pasture", "pasture", "fields", "hills",
      "pasture", "fields", "mountains", "desert", "forest",
      "mountains", "fields", "pasture", "fields",
      "hills", "forest", "mountains">>

NumbersC == <<2, 3, 3, 4, 6, 4, 9, 9, 6, 5, 10, 10, 11, 8, 8, 11, 12, 5>>

\* players 0 and 1 buy a knight on each of their turns and play the one
\* bought before, moving the robber between two hexes nobody has built on;
\* player 0 may also end its turn without having done so
ScenarioArmy ==
    [name |-> "army",
     player_count |-> 3,
     terrains |-> TerrainsC,
     numbers |-> NumbersC,
     deck |-> DeckDrawing("knight"),
     setup |-> <<{PS(6), PR(6)}, {PS(11), PR(12)}, {PS(36), PR(45)},
                 {PS(4), PR(3)}, {PS(43), PR(56)}, {PS(19), PR(22)}>>,
     dice |-> [t \in 1..ArmyTurns |->
                 {Pair(IF t % 3 = 1 THEN 6 ELSE IF t % 3 = 2 THEN 8 ELSE 5)}],
     menu |-> [t \in 1..ArmyTurns |->
                 CASE t % 3 = 1 -> {<<"PLAY_KNIGHT">>, <<"BUY_DEV_CARD">>, MR(10), MR(12),
                                    <<"END_TURN">>}
                   [] t % 3 = 2 -> {<<"PLAY_KNIGHT">>, <<"BUY_DEV_CARD">>, MR(10), MR(12)}
                   [] OTHER -> {}]]

SealedTurns == 6

\* a fourth shuffle: player 2 (vertices 5 and 36, on an ore and on a generic
\* harbor) is paid two ore by a 6, player 0 (vertex 33) lumber and brick by
\* an 8
TerrainsD ==
    <<"mountains", "pasture", "fields",
      "pasture", "forest", "fields", "pasture",
      "pasture", "fields", "desert", "forest", "mountains",
      "forest", "fields", "mountains", "hills",
      "hills", "forest", "hills">>

NumbersD == <<6, 2, 3, 3, 4, 4, 5, 5, 9, 8, 6, 9, 10, 10, 8, 11, 11, 12>>

MT(give, receive) == <<"MARITIME_TRADE", give, receive>>

\* the roads of player 2 end on roads that players 0 and 1 placed in the
\* draft; player 0 may build on the two edges that are left next to the
\* settlements of player 2, which trades ore at its harbor, buys a
\* road-building card on turn 3 and plays it on turn 6
ScenarioSealed ==
    [name |-> "sealed",
     player_count |-> 3,
     terrains |-> TerrainsD,
     numbers |-> NumbersD,
     deck |-> DeckDrawing("road_building"),
     setup |-> <<{PS(1), PR(0)}, {PS(3), PR(3)}, {PS(5), PR(4)},
                 {PS(36), PR(45)}, {PS(23), PR(48)}, {PS(33), PR(47)}>>,
     dice |-> [t \in 1..SealedTurns |-> {Pair(IF t <= 2 THEN 6 ELSE 8)}],
     menu |-> [t \in 1..SealedTurns |->
                 CASE t = 1 -> {BR(5), BR(46)}
                   [] t = 3 -> {MT("ore", "wool"), MT("ore", "grain"), <<"BUY_DEV_CARD">>}
                   [] t = 4 -> {BR(5), BR(46), <<"END_TURN">>}
                   [] t = 6 -> {<<"PLAY_ROAD_BUILDING">>}
                                \cup {<<"PLACE_ROAD_BUILDING_ROAD", e>> : e \in {46, 59, 5, 9}}
                   [] OTHER -> {}]]

Scenarios ==
    {ScenarioWin, ScenarioDraft3, ScenarioDraft4, ScenarioRobber, ScenarioShortage,
     ScenarioRoads, ScenarioArmy, ScenarioSealed}
        \cup {ScenarioDev(card) : card \in {"knight", "road_building", "year_of_plenty", "monopoly"}}

Profile(c) == CHOOSE p \in Scenarios : p.name = c

Menu(c, s) ==
    IF s.turn_number = 0 THEN Profile(c).setup[s.setup_index + 1]
    ELSE IF s.turn_number <= Len(Profile(c).menu) THEN Profile(c).menu[s.turn_number]
    ELSE {}

DiceSet(c, s) ==
    IF s.turn_number \in 1..Len(Profile(c).dice) THEN Profile(c).dice[s.turn_number] ELSE {}

\* the caller's pick among the legal actions: a forced answer (discard,
\* steal) is any legal one, END_TURN is taken when it is on the menu or
\* when nothing else on the menu is legal, anything else is on the menu
CallerAllows(c, s, legal, action) ==
    CASE action[1] \in {"DISCARD_RESOURCES", "STEAL_RESOURCE"} -> TRUE
      [] action[1] = "ROLL_DICE" -> DiceSet(c, s) # {}
      [] action[1] = "END_TURN" ->
            \/ action \in Menu(c, s)
            \/ (legal \cap Menu(c, s)) = {}
      [] OTHER -> action \in Menu(c, s)

Draws(c, s, action) ==
    IF action[1] = "ROLL_DICE" THEN RandomDraws(s, action) \cap DiceSet(c, s)
    ELSE RandomDraws(s, action)

Init ==
    /\ caller \in {p.name : p \in Scenarios}
    /\ IsShuffleOf(Profile(caller).terrains, TERRAIN_DISTRIBUTION)
    /\ IsShuffleOf(Profile(caller).numbers, NUMBER_TOKEN_DISTRIBUTION)
    /\ IsShuffleOf(Profile(caller).deck, DEV_CARD_DISTRIBUTION)
    /\ Profile(caller).player_count \in {3, 4}
    /\ state = reset(Profile(caller).player_count, Profile(caller).terrains,
                     Profile(caller).numbers, Profile(caller).deck)
    /\ call = NoCall
    /\ held = state
    /\ args = <<>>
    /\ result = <<>>

\* one call of step with an action of the given type out of `legal`
StepWith(legal, action_type) ==
    \E action \in legal :
        /\ action[1] = action_type
        /\ CallerAllows(caller, state, legal, action)
        /\ \E rnd \in Draws(caller, state, action) : state' = step(state, action, rnd)
        /\ call' = Called(action, TRUE, state')
        /\ held' = prior_state_after(held, state')

\* The caller picks its action from get_legal_actions; every action below
\* names the phase in which get_legal_actions offers its type.  A caller
\* that has passed step an illegal action makes no further call.
Step(action_type) ==
    /\ call.legal
    /\ StepWith(get_legal_actions(state), action_type)

PlaceSetupSettlement ==
    /\ state.phase = "SETUP_PLACE_SETTLEMENT"
    /\ Step("PLACE_SETUP_SETTLEMENT")
    /\ UNCHANGED <<caller, args, result>>

PlaceSetupRoad ==
    /\ state.phase = "SETUP_PLACE_ROAD"
    /\ Step("PLACE_SETUP_ROAD")
    /\ UNCHANGED <<caller, args, result>>

RollDice ==
    /\ state.phase = "ROLL_DICE"
    /\ Step("ROLL_DICE")
    /\ UNCHANGED <<caller, args, result>>

DiscardResources ==
    /\ state.phase = "DISCARD"
    /\ Step("DISCARD_RESOURCES")
    /\ UNCHANGED <<caller, args, result>>

MoveRobber ==
    /\ state.phase = "MOVE_ROBBER"
    /\ Step("MOVE_ROBBER")
    /\ UNCHANGED <<caller, args, result>>

StealResource ==
    /\ state.phase = "STEAL"
    /\ Step("STEAL_RESOURCE")
    /\ UNCHANGED <<caller, args, result>>

BuildRoad ==
    /\ state.phase = "TRADE_BUILD_PLAY"
    /\ Step("BUILD_ROAD")
    /\ UNCHANGED <<caller, args, result>>

BuildSettlement ==
    /\ state.phase = "TRADE_BUILD_PLAY"
    /\ Step("BUILD_SETTLEMENT")
    /\ UNCHANGED <<caller, args, result>>

BuildCity ==
    /\ state.phase = "TRADE_BUILD_PLAY"
    /\ Step("BUILD_CITY")
    /\ UNCHANGED <<caller, args, result>>

BuyDevCard ==
    /\ state.phase = "TRADE_BUILD_PLAY"
    /\ Step("BUY_DEV_CARD")
    /\ UNCHANGED <<caller, args, result>>

PlayKnight ==
    /\ state.phase = "TRADE_BUILD_PLAY"
    /\ Step("PLAY_KNIGHT")
    /\ UNCHANGED <<caller, args, result>>

PlayRoadBuilding ==
    /\ state.phase = "TRADE_BUILD_PLAY"
    /\ Step("PLAY_ROAD_BUILDING")
    /\ UNCHANGED <<caller, args, result>>

PlaceRoadBuildingRoad ==
    /\ state.phase = "ROAD_BUILDING_PLACE"
    /\ Step("PLACE_ROAD_BUILDING_ROAD")
    /\ UNCHANGED <<caller, args, result>>

PlayYearOfPlenty ==
    /\ state.phase = "TRADE_BUILD_PLAY"
    /\ Step("PLAY_YEAR_OF_PLENTY")
    /\ UNCHANGED <<caller, args, result>>

PickYearOfPlentyResources ==
    /\ state.phase = "YEAR_OF_PLENTY_PICK"
    /\ Step("PICK_YEAR_OF_PLENTY_RESOURCES")
    /\ UNCHANGED <<caller, args, result>>

PlayMonopoly ==
    /\ state.phase = "TRADE_BUILD_PLAY"
    /\ Step("PLAY_MONOPOLY")
    /\ UNCHANGED <<caller, args, result>>

PickMonopolyResource ==
    /\ state.phase = "MONOPOLY_PICK"
    /\ Step("PICK_MONOPOLY_RESOURCE")
    /\ UNCHANGED <<caller, args, result>>

MaritimeTrade ==
    /\ state.phase = "TRADE_BUILD_PLAY"
    /\ Step("MARITIME_TRADE")
    /\ UNCHANGED <<caller, args, result>>

EndTurn ==
    /\ state.phase = "TRADE_BUILD_PLAY"
    /\ Step("END_TURN")
    /\ UNCHANGED <<caller, args, result>>

Next ==
    \/ PlaceSetupSettlement
    \/ PlaceSetupRoad
    \/ RollDice
    \/ DiscardResources
    \/ MoveRobber
    \/ StealResource
    \/ BuildRoad
    \/ BuildSettlement
    \/ BuildCity
    \/ BuyDevCard
    \/ PlayKnight
    \/ PlayRoadBuilding
    \/ PlaceRoadBuildingRoad
    \/ PlayYearOfPlenty
    \/ PickYearOfPlentyResources
    \/ PlayMonopoly
    \/ PickMonopolyResource
    \/ MaritimeTrade
    \/ EndTurn

Spec == Init /\ [][Next]_vars

(***************************************************************************)
(* A caller that may also pass step an action get_legal_actions does not   *)
(* offer: END_TURN or ROLL_DICE out of their phase (or after the game is   *)
(* over), or an action of no known type.                                   *)
(***************************************************************************)
MisuseDraws == {<<1, 6>>, <<2, 6>>}

\* a known action type, not legal in this state
StepOutOfPhase ==
    /\ call.legal
    /\ \E action \in {<<"END_TURN">>, <<"ROLL_DICE">>} \ get_legal_actions(state) :
          \E rnd \in MisuseDraws :
              /\ state' = step(state, action, rnd)
              /\ call' = Called(action, FALSE, state')
              /\ held' = prior_state_after(held, state')
    /\ UNCHANGED <<caller, args, result>>

StepUnknownType ==
    /\ call.legal
    /\ state' = step(state, <<"RESIGN">>, <<0>>)
    /\ call' = Called(<<"RESIGN">>, FALSE, state')
    /\ held' = prior_state_after(held, state')
    /\ UNCHANGED <<caller, args, result>>

NextMisuse ==
    \/ Next
    \/ StepOutOfPhase
    \/ StepUnknownType

SpecMisuse == Init /\ [][NextMisuse]_vars

(***************************************************************************)
(* CatanEnv._enumerate_discard called on its own, on a freshly built       *)
(* CatanEnv: every hand of at most MaxHandCount cards of each resource,    *)
(* with the count get_legal_actions passes for it.                         *)
(***************************************************************************)
MaxHandCount == 3

InitEnumerate ==
    /\ state = CatanState
    /\ caller = "enumerate_discard"
    /\ call = NoCall
    /\ held = state
    /\ args \in {<<hand, total_resources(hand) \div 2>> :
                    hand \in [ResSet -> 0..MaxHandCount]}
    /\ result = <<>>

EnumerateDiscard ==
    /\ caller = "enumerate_discard"
    /\ result = <<>>
    /\ result' = <<enumerate_discard(args[1], args[2])>>
    /\ UNCHANGED <<state, caller, call, held, args>>

NextEnumerate == EnumerateDiscard

SpecEnumerate == InitEnumerate /\ [][NextEnumerate]_vars

(***************************************************************************)
(* calculate_vp called on its own: a state after reset with buildings on   *)
(* two vertices, the two awards given out or not, and development cards of *)
(* player 0, at most MaxVpCards of them playable.                          *)
(***************************************************************************)
MaxVpCards == 2

SeqsUpTo(S, n) == UNION {[1..k -> S] : k \in 0..n}

VpBuildings == {NoBuilding, <<"settlement", 0>>, <<"city", 0>>, <<"city", 1>>}

VpState(base, b19, b31, lr, la, cards, new_cards) ==
    [base EXCEPT !.vertex_buildings[19] = b19,
                 !.vertex_buildings[31] = b31,
                 !.longest_road_player = lr,
                 !.largest_army_player = la,
                 !.players[0].dev_cards = cards,
                 !.players[0].new_dev_cards = new_cards]

InitVp ==
    /\ \E base \in {reset(3, TerrainsA, NumbersA, DeckDrawing("victory_point"))} :
           state \in {VpState(base, b19, b31, lr, la, cards, new_cards) :
                        b19 \in VpBuildings, b31 \in VpBuildings,
                        lr \in {None, 0, 1}, la \in {None, 0},
                        cards \in SeqsUpTo({"victory_point", "knight"}, MaxVpCards),
                        new_cards \in SeqsUpTo({"victory_point"}, 1)}
    /\ caller = "calculate_vp"
    /\ call = NoCall
    /\ held = state
    /\ args \in {<<player>> : player \in Players(state)}
    /\ result = <<>>

\* calculate_vp assigns to its local vp only
CalculateVp ==
    /\ caller = "calculate_vp"
    /\ result = <<>>
    /\ result' = <<calculate_vp(state, args[1])>>
    /\ UNCHANGED <<state, caller, call, held, args>>

NextVp == CalculateVp

SpecVp == InitVp /\ [][NextVp]_vars

(***************************************************************************)
(* Seeded runs.  Two CatanEnv objects are constructed, reset with one seed *)
(* and handed one sequence of actions, their calls interleaved in any      *)
(* order.  args is [seed, actions, applied]: the seed, the actions chosen  *)
(* so far (by the caller of the object that is ahead, from its             *)
(* get_legal_actions) and the number of them each object has applied;      *)
(* result is the pair of objects, each [player_count, state, rng] for      *)
(* _player_count, state and _rng.                                          *)
(*                                                                         *)
(* numpy's RandomState is a generator whose output is a function of its    *)
(* seed and of the number of variates drawn from it: [seed, pos], with     *)
(* Variate standing for the generator's k-th output.  RandomState()        *)
(* without a seed seeds itself from the operating system: any of           *)
(* Entropies.                                                              *)
(***************************************************************************)
Seeds == {3, 9}

Entropies == {100, 101}

MaxSeededSteps == 17

RandomState(seed) == [seed |-> seed, pos |-> 0]

Variate(rng) ==
    (rng.seed * 31 + rng.pos * 17 + rng.pos * rng.pos * 7 + rng.seed * rng.pos * 3) % 61

\* rng.randint(low, high): a value in [low, high) and the generator after it
randint(rng, low, high) ==
    [value |-> low + (Variate(rng) % (high - low)),
     rng |-> [rng EXCEPT !.pos = @ + 1]]

\* rng.shuffle(x): for i from len(x) - 1 down to 1, x[i] is swapped with
\* x[j] for a drawn j in [0, i]  (x[i + 1] is the list's element i)
RECURSIVE ShuffleFrom(_, _, _)
ShuffleFrom(rng, x, i) ==
    IF i < 1 THEN [list |-> x, rng |-> rng]
    ELSE LET d == randint(rng, 0, i + 1)
         IN  ShuffleFrom(d.rng,
                         [x EXCEPT ![i + 1] = x[d.value + 1], ![d.value + 1] = x[i + 1]],
                         i - 1)

shuffle(rng, x) == ShuffleFrom(rng, x, Len(x) - 1)

\* CatanEnv(player_count), its generator seeded by the operating system
CatanEnv(player_count, entropy) ==
    [player_count |-> player_count, state |-> CatanState, rng |-> RandomState(entropy)]

\* a reset that goes on with the generator the object has
reset_unseeded(env, seed) ==
    LET t == shuffle(env.rng, TERRAIN_DISTRIBUTION)
        n == shuffle(t.rng, NUMBER_TOKEN_DISTRIBUTION)
        d == shuffle(n.rng, DEV_CARD_DISTRIBUTION)
    IN  [env EXCEPT !.state = reset(env.player_count, t.list, n.list, d.list),
                    !.rng = d.rng]

\* env.reset(seed) with a seed: a new generator, then the three shuffles
reset_seeded(env, seed) ==
    LET t == shuffle(RandomState(seed), TERRAIN_DISTRIBUTION)
        n == shuffle(t.rng, NUMBER_TOKEN_DISTRIBUTION)
        d == shuffle(n.rng, DEV_CARD_DISTRIBUTION)
    IN  [env EXCEPT !.state = reset(env.player_count, t.list, n.list, d.list),
                    !.rng = d.rng]

\* env.step(action), the handlers drawing from the object's generator:
\* two dice for ROLL_DICE, an index into the victim's cards for a
\* STEAL_RESOURCE from a victim who holds any
step_seeded(env, action) ==
    CASE action[1] = "ROLL_DICE" ->
            LET d1 == randint(env.rng, 1, 7)
                d2 == randint(d1.rng, 1, 7)
            IN  [env EXCEPT !.state = step(env.state, action, <<d1.value, d2.value>>),
                            !.rng = d2.rng]
      [] /\ action[1] = "STEAL_RESOURCE"
         /\ action[2] # None
         /\ total_resources(env.state.players[action[2]].resources) > 0 ->
            LET d == randint(env.rng, 0,
                             total_resources(env.state.players[action[2]].resources))
            IN  [env EXCEPT !.state = step(env.state, action, <<d.value>>),
                            !.rng = d.rng]
      [] OTHER -> [env EXCEPT !.state = step(env.state, action, <<0>>)]

\* the caller's pick among the legal actions: a settlement on one of the
\* sites of the draft slot, the road with the least edge id beside it, the
\* robber to one of the two least hexes with somebody to steal from (to
\* one of the two least hexes if there is none), and END_TURN after the roll
SeededSites == <<{12, 21}, {29}, {33, 44}, {38}, {16}, {23}>>

SeededAllows(s, legal) ==
    CASE s.phase = "SETUP_PLACE_SETTLEMENT" ->
            {a \in legal : a[2] \in SeededSites[s.setup_index + 1]}
      [] s.phase = "SETUP_PLACE_ROAD" -> {a \in legal : \A b \in legal : a[2] <= b[2]}
      [] s.phase = "MOVE_ROBBER" ->
            LET good == {a \in legal : get_steal_targets(s, a[2], s.current_player) # {}}
                pool == IF good = {} THEN legal ELSE good
            IN  {a \in pool : Cardinality({b \in pool : b[2] < a[2]}) < 2}
      [] s.phase = "TRADE_BUILD_PLAY" -> {a \in legal : a[1] = "END_TURN"}
      [] OTHER -> legal

InitSeeded ==
    /\ state = CatanState
    /\ caller = "seeded"
    /\ call = NoCall
    /\ held = state
    /\ \E seed \in Seeds : args = [seed |-> seed, actions |-> <<>>, applied |-> <<0, 0>>]
    /\ \E e1 \in Entropies, e2 \in Entropies : result = <<CatanEnv(3, e1), CatanEnv(3, e2)>>

\* one of the objects is reset with the seed
ResetSeeded ==
    /\ caller = "seeded"
    /\ \E i \in 1..2 :
          /\ result[i].state.phase = "PRE_GAME"
          /\ result' = [result EXCEPT ![i] = reset_seeded(@, args.seed)]
    /\ UNCHANGED <<state, caller, call, held, args>>

\* the object that is not behind the other takes the action its caller
\* picks among its legal actions
StepLeading ==
    /\ caller = "seeded"
    /\ \E i \in 1..2 :
          /\ result[i].state.phase # "PRE_GAME"
          /\ args.applied[i] = Len(args.actions)
          /\ args.applied[i] < MaxSeededSteps
          /\ \E action \in SeededAllows(result[i].state, get_legal_actions(result[i].state)) :
                /\ result' = [result EXCEPT ![i] = step_seeded(@, action)]
                /\ args' = [args EXCEPT !.actions = Append(@, action),
                                        !.applied[i] = @ + 1]
    /\ UNCHANGED <<state, caller, call, held>>

\* the object that is behind takes the next action of the sequence
StepFollowing ==
    /\ caller = "seeded"
    /\ \E i \in 1..2 :
          /\ result[i].state.phase # "PRE_GAME"
          /\ args.applied[i] < Len(args.actions)
          /\ result' = [result EXCEPT ![i] = step_seeded(@, args.actions[args.applied[i] + 1])]
          /\ args' = [args EXCEPT !.applied[i] = @ + 1]
    /\ UNCHANGED <<state, caller, call, held>>

NextSeeded ==
    \/ ResetSeeded
    \/ StepLeading
    \/ StepFollowing

SpecSeeded == InitSeeded /\ [][NextSeeded]_vars

(***************************************************************************)
(* calculate_longest_road called on its own: a state after reset with      *)
(* roads on the six edges of the centre hex (hex 9) and on three edges     *)
(* leading away from it, and buildings on two of its vertices.             *)
(***************************************************************************)
RingEdges == {39, 40, 41, 36, 22, 26}

RoadsState(base, ring, e25, e53, e37, b21, b29) ==
    [base EXCEPT !.edge_roads = [eid \in DOMAIN @ |->
                                    IF eid \in ring THEN 0
                                    ELSE IF eid = 25 THEN e25
                                    ELSE IF eid = 53 THEN e53
                                    ELSE IF eid = 37 THEN e37
                                    ELSE None],
                 !.vertex_buildings[21] = b21,
                 !.vertex_buildings[29] = b29]

InitRoads ==
    /\ \E base \in {reset(3, TerrainsA, NumbersA, DeckDrawing("knight"))} :
           state \in {RoadsState(base, ring, e25, e53, e37, b21, b29) :
                        ring \in SUBSET RingEdges,
                        e25 \in {None, 0}, e53 \in {None, 0}, e37 \in {None, 0, 1},
                        b21 \in {NoBuilding, <<"settlement", 0>>, <<"settlement", 1>>},
                        b29 \in {NoBuilding, <<"city", 1>>}}
    /\ caller = "calculate_longest_road"
    /\ call = NoCall
    /\ held = state
    /\ args \in {<<player>> : player \in {0, 1}}
    /\ result = <<>>

\* calculate_longest_road reads the state and writes to its locals only
CalculateLongestRoad ==
    /\ caller = "calculate_longest_road"
    /\ result = <<>>
    /\ result' = <<calculate_longest_road(state, args[1])>>
    /\ UNCHANGED <<state, caller, call, held, args>>

NextRoads == CalculateLongestRoad

SpecRoads == InitRoads /\ [][NextRoads]_vars

(***************************************************************************)
(* The road-building card played on its own.  The draft of the scenario    *)
(* "sealed" is run through step; then player 0 owns the first j edges of   *)
(* LongPath (from vertex 0 on) and perhaps edges 5 and 46, the only edges  *)
(* that lead away from the settlements of player 2, and the player to move *)
(* (0 or 2) holds a road-building card, a lumber and a brick more, after   *)
(* its roll.  With j = 13 player 0 has no road left to place.              *)
(***************************************************************************)
LongPath == <<9, 10, 6, 7, 21, 22, 23, 17, 18, 35, 34, 33, 32>>

RECURSIVE Run(_, _)
Run(s, actions) ==
    IF actions = <<>> THEN s ELSE Run(step(s, Head(actions), <<0>>), Tail(actions))

CardDraft ==
    <<PS(1), PR(0), PS(3), PR(3), PS(5), PR(4), PS(36), PR(45), PS(23), PR(48), PS(33), PR(47)>>

CardState(base, holder, j, e5, e46) ==
    LET more == {LongPath[i] : i \in 1..j}
                    \cup (IF e5 = 0 THEN {5} ELSE {})
                    \cup (IF e46 = 0 THEN {46} ELSE {})
    IN  [base EXCEPT !.edge_roads = [eid \in DOMAIN @ |-> IF eid \in more THEN 0 ELSE @[eid]],
                     !.players[0].remaining_roads = @ - Cardinality(more),
                     !.players[holder].dev_cards = <<"road_building">>,
                     !.players[holder].resources["lumber"] = @ + 1,
                     !.players[holder].resources["brick"] = @ + 1,
                     !.bank["lumber"] = @ - 1,
                     !.bank["brick"] = @ - 1,
                     !.phase = "TRADE_BUILD_PLAY",
                     !.current_player = holder,
                     !.turn_number = holder + 1,
                     !.last_roll = <<6, 6>>]

InitCard ==
    /\ \E base \in {Run(reset(3, TerrainsD, NumbersD, DeckDrawing("knight")), CardDraft)} :
           state \in {CardState(base, holder, j, e5, e46) :
                        holder \in {0, 2}, j \in 0..Len(LongPath),
                        e5 \in {None, 0}, e46 \in {None, 0}}
    /\ state.players[0].remaining_roads >= 0
    /\ caller = "road_building"
    /\ call = NoCall
    /\ held = state
    /\ args = <<>>
    /\ result = <<>>

\* step on the action of the given type that the caller picks from
\* get_legal_actions
CardStep(action_type) ==
    /\ caller = "road_building"
    /\ \E action \in get_legal_actions(state) :
          /\ action[1] = action_type
          /\ state' = step(state, action, <<0>>)
          /\ call' = Called(action, TRUE, state')
          /\ held' = prior_state_after(held, state')
    /\ UNCHANGED <<caller, args, result>>

CardPlay == CardStep("PLAY_ROAD_BUILDING")

CardPlace == CardStep("PLACE_ROAD_BUILDING_ROAD")

NextCard ==
    \/ CardPlay
    \/ CardPlace

SpecCard == InitCard /\ [][NextCard]_vars

(***************************************************************************)
(* The calculators called on their own, one after the other, on a state    *)
(* of the two families above.  _lr_dfs is written out here with its        *)
(* visited_edges argument as the one set object all its calls share: an    *)
(* edge is added before the search goes on and discarded once it is back.  *)
(* result is the list of the calls made: the function, the player, the     *)
(* value returned and what the visited sets held when the searches         *)
(* returned.                                                               *)
(***************************************************************************)
MaxCalls == 2

\* the set without a removal
Discard_kept(visited_edges, eid) == visited_edges

\* visited_edges.discard(eid)
Discard(visited_edges, eid) == visited_edges \ {eid}

\* the loop of _lr_dfs over the adjacent edges still to look at, least id
\* first; acc is [max_len, visited]
RECURSIVE LrLoop(_, _, _, _, _, _)
LrLoop(s, player, player_edges, vertex, todo, acc) ==
    IF todo = {} THEN acc
    ELSE LET eid == CHOOSE e \in todo : \A f \in todo : e <= f
             v1 == s.topology.edge_endpoints[eid][1]
             v2 == s.topology.edge_endpoints[eid][2]
             next_v == IF v1 = vertex THEN v2 ELSE v1
             bldg == s.vertex_buildings[next_v]
             blocked == bldg # NoBuilding /\ bldg[2] # player
             added == acc.visited \cup {eid}
             below == LrLoop(s, player, player_edges, next_v,
                             s.topology.vertex_adjacent_edges[next_v],
                             [max_len |-> 0, visited |-> added])
             path == IF blocked THEN 1 ELSE 1 + below.max_len
             after == IF blocked THEN added ELSE below.visited
         IN  IF eid \notin player_edges \/ eid \in acc.visited
             THEN LrLoop(s, player, player_edges, vertex, todo \ {eid}, acc)
             ELSE LrLoop(s, player, player_edges, vertex, todo \ {eid},
                         [max_len |-> Max(acc.max_len, path),
                          visited |-> Discard(after, eid)])

lr_dfs_visiting(s, player, player_edges, vertex, visited_edges) ==
    LrLoop(s, player, player_edges, vertex, s.topology.vertex_adjacent_edges[vertex],
           [max_len |-> 0, visited |-> visited_edges])

\* calculate_longest_road: a new visited set for every start vertex; the
\* value, and the edges left in the visited sets
calculate_longest_road_visiting(s, player) ==
    LET player_edges == {eid \in Edges(s) : s.edge_roads[eid] = player}
        start_vertices == {s.topology.edge_endpoints[eid][1] : eid \in player_edges}
                              \cup {s.topology.edge_endpoints[eid][2] : eid \in player_edges}
        runs == {lr_dfs_visiting(s, player, player_edges, sv, {}) : sv \in start_vertices}
    IN  [value |-> SetMax({r.max_len : r \in runs}),
         visited |-> UNION {r.visited : r \in runs}]

InitPure ==
    /\ \/ \E base \in {reset(3, TerrainsA, NumbersA, DeckDrawing("knight"))} :
              state \in {RoadsState(base, ring, e25, None, 0, NoBuilding, b29) :
                           ring \in SUBSET RingEdges, e25 \in {None, 0},
                           b29 \in {NoBuilding, <<"city", 1>>}}
       \/ \E base \in {Run(reset(3, TerrainsD, NumbersD, DeckDrawing("knight")), CardDraft)} :
              state \in {CardState(base, holder, j, None, 0) :
                           holder \in {0, 2}, j \in {0, 5, 12}}
    /\ caller = "calculators"
    /\ call = NoCall
    /\ held = state
    /\ args \in {<<player>> : player \in {0, 1}}
    /\ result = <<>>

\* the three functions assign to their locals only
CallLongestRoad ==
    /\ caller = "calculators"
    /\ Len(result) < MaxCalls
    /\ LET r == calculate_longest_road_visiting(state, args[1])
       IN  result' = Append(result, [fn |-> "calculate_longest_road", value |-> r.value,
                                     visited |-> r.visited])
    /\ UNCHANGED <<state, caller, call, held, args>>

CallLegalActions ==
    /\ caller = "calculators"
    /\ Len(result) < MaxCalls
    /\ result' = Append(result, [fn |-> "get_legal_actions", value |-> get_legal_actions(state),
                                 visited |-> {}])
    /\ UNCHANGED <<state, caller, call, held, args>>

CallVp ==
    /\ caller = "calculators"
    /\ Len(result) < MaxCalls
    /\ result' = Append(result, [fn |-> "calculate_vp", value |-> calculate_vp(state, args[1]),
                                 visited |-> {}])
    /\ UNCHANGED <<state, caller, call, held, args>>

NextPure ==
    \/ CallLongestRoad
    \/ CallLegalActions
    \/ CallVp

SpecPure == InitPure /\ [][NextPure]_vars

(***************************************************************************)
(* Properties of the engine under a caller that follows                    *)
(* get_legal_actions (Spec) and under one that does not (SpecMisuse).      *)
(***************************************************************************)
\* the cards of one resource held by all players together
HandSum(s, r) ==
    LET h(p) == IF p \in Players(s) THEN s.players[p].resources[r] ELSE 0
    IN  h(0) + h(1) + h(2) + h(3)

\* the type of the action of the last call of step ("" before any call)
LastActionType == IF call.action = <<>> THEN "" ELSE call.action[1]

\* C1 -- Resource conservation: in every state reached from reset() by
\* legal actions, for each of the five resources the players' hands and the
\* bank together hold 19 cards.
ResourceConservation ==
    \A r \in ResSet : HandSum(state, r) + state.bank[r] = 19

\* a monopoly has just moved at least three cards of two other players into
\* the hand of the player who played it
ResourceConservationWitness ==
    /\ LastActionType = "PICK_MONOPOLY_RESOURCE"
    /\ state.players[state.current_player].resources[call.action[2]] >= 3
    /\ state.bank[call.action[2]] < 19
    /\ \E r \in ResSet : \E p \in Players(state) :
          p # state.current_player /\ state.players[p].resources[r] > 0

\* C2 -- Non-negativity: in every state reached from reset() by legal
\* actions, every hand counter of every player and every bank counter is
\* at least 0.
NonNegativity ==
    \A r \in ResSet :
        /\ state.bank[r] >= 0
        /\ \A p \in Players(state) : state.players[p].resources[r] >= 0

\* a roll has taken the last ore out of the bank while a player holds no
\* card of some resource
NonNegativityWitness ==
    /\ LastActionType = "ROLL_DICE"
    /\ state.bank["ore"] = 0
    /\ \E p \in Players(state) : \E r \in ResSet : state.players[p].resources[r] = 0

\* C3 -- Illegal-action fail-fast: whenever step is called with an action
\* that is not in get_legal_actions() for the current state (an action of
\* another phase, or any action in GAME_OVER), step signals an error and
\* leaves the game state as it was.
IllegalActionFailFast ==
    [][~call'.legal => (call'.raised /\ state' = state)]_vars

\* END_TURN passed in the first setup phase has returned normally and has
\* moved the game to the roll of player 1
IllegalActionFailFastWitness ==
    /\ ~call.legal
    /\ call.action = <<"END_TURN">>
    /\ ~call.raised
    /\ state.phase = "ROLL_DICE"
    /\ state.current_player = 1
    /\ state.turn_number = 1
    /\ \A v \in Vertices(state) : state.vertex_buildings[v] = NoBuilding

\* C4 -- GAME_OVER reachability: a step of legal play enters phase GAME_OVER
\* only if its action is END_TURN and calculate_vp of the player ending the
\* turn is at least 10 in the state the action is applied to.
GameOverOnlyByEndTurn ==
    [][(state.phase # "GAME_OVER" /\ state'.phase = "GAME_OVER")
          => /\ call'.action = <<"END_TURN">>
             /\ calculate_vp(state, state.current_player) >= 10
             /\ state'.winner = state.current_player]_vars

\* the game has ended by an END_TURN of player 0, who had reached 10 points
\* during the turn
GameOverOnlyByEndTurnWitness ==
    /\ state.phase = "GAME_OVER"
    /\ call.action = <<"END_TURN">>
    /\ call.done
    /\ state.winner = 0
    /\ calculate_vp(state, 0) >= 10

\* C5 -- Piece bounds: in every state reached by legal actions, every
\* player has 0..5 settlements, 0..4 cities and 0..15 roads left.
PieceBounds ==
    \A p \in Players(state) :
        /\ state.players[p].remaining_settlements \in 0..5
        /\ state.players[p].remaining_cities \in 0..4
        /\ state.players[p].remaining_roads \in 0..15

\* both setup settlements of a player have become cities, so that the
\* player holds all five settlement pieces again
PieceBoundsWitness ==
    \E p \in Players(state) :
        /\ state.players[p].remaining_settlements = 5
        /\ state.players[p].remaining_cities = 2
        /\ LastActionType = "BUILD_CITY"

\* C6 -- Copy-on-write: for every action, step leaves the state object
\* that was current before the call unchanged in all its parts, and the
\* object a caller has kept since reset holds the same values after any
\* number of later steps.
CopyOnWrite ==
    [][/\ prior_state_after(state, state') = state
       /\ held' = held]_vars

\* the game has moved on in every mutable part since reset, two players
\* being queued for a discard, while the object kept from reset still shows
\* the empty board of the first setup phase
CopyOnWriteWitness ==
    /\ held.phase = "SETUP_PLACE_SETTLEMENT"
    /\ \A v \in Vertices(held) : held.vertex_buildings[v] = NoBuilding
    /\ \A r \in ResSet : held.bank[r] = 19
    /\ state.phase = "DISCARD"
    /\ Len(state.players_needing_discard) = 2
    /\ state.current_player # held.current_player
    /\ state.vertex_buildings # held.vertex_buildings
    /\ state.edge_roads # held.edge_roads
    /\ state.bank # held.bank
    /\ \A p \in Players(state) : state.players[p] # held.players[p]

\* roads on the board
RoadCount(s) == Cardinality({e \in Edges(s) : s.edge_roads[e] # None})

\* the player of draft slot k among n players: 0..n-1, then n-1..0
SnakeOrder(n, k) == IF k < n THEN k ELSE 2 * n - 1 - k

\* C7 -- Setup snake draft: from reset() with N in {3,4} players the phase
\* alternates SETUP_PLACE_SETTLEMENT, SETUP_PLACE_ROAD; the k-th
\* settlement/road pair (k = 0..2N-1) is placed by player order[k], order
\* being 0..N-1 followed by N-1..0; and after the 2N-th road, not earlier,
\* the phase is ROLL_DICE with current_player 0 and turn_number 1.
SetupSnakeDraft ==
    [][state.phase \in {"SETUP_PLACE_SETTLEMENT", "SETUP_PLACE_ROAD"} =>
        LET N == state.player_count
            k == RoadCount(state)
        IN  /\ N \in {3, 4}
            /\ k < 2 * N
            /\ state.turn_number = 0
            /\ IF state.phase = "SETUP_PLACE_SETTLEMENT"
               THEN /\ \E v \in Vertices(state) :
                          /\ state.vertex_buildings[v] = NoBuilding
                          /\ state'.vertex_buildings =
                                [state.vertex_buildings EXCEPT ![v] = <<"settlement", SnakeOrder(N, k)>>]
                    /\ state'.edge_roads = state.edge_roads
                    /\ state'.phase = "SETUP_PLACE_ROAD"
                    /\ state'.turn_number = 0
               ELSE /\ \E e \in Edges(state) :
                          /\ state.edge_roads[e] = None
                          /\ state'.edge_roads =
                                [state.edge_roads EXCEPT ![e] = SnakeOrder(N, k)]
                    /\ state'.vertex_buildings = state.vertex_buildings
                    /\ IF k + 1 = 2 * N
                       THEN /\ state'.phase = "ROLL_DICE"
                            /\ state'.current_player = 0
                            /\ state'.turn_number = 1
                       ELSE /\ state'.phase = "SETUP_PLACE_SETTLEMENT"
                            /\ state'.turn_number = 0]_vars

\* four players have placed their eight pairs, player 0 the first and the
\* last, and the first roll is due
SetupSnakeDraftWitness ==
    /\ state.player_count = 4
    /\ LastActionType = "PLACE_SETUP_ROAD"
    /\ RoadCount(state) = 8
    /\ state.edge_roads[call.action[2]] = 0
    /\ state.phase = "ROLL_DICE"
    /\ state.current_player = 0
    /\ state.turn_number = 1

\* C8 -- Distance rule: in every state reached by legal actions, no two
\* vertices adjacent in the topology both hold a building.
DistanceRule ==
    \A v \in Vertices(state) :
        state.vertex_buildings[v] # NoBuilding
            => \A adj \in state.topology.vertex_adjacent_vertices[v] :
                   state.vertex_buildings[adj] = NoBuilding

\* a settlement has been built in the main game, next to the two of setup
DistanceRuleWitness ==
    /\ LastActionType = "BUILD_SETTLEMENT"
    /\ Cardinality({v \in Vertices(state) : state.vertex_buildings[v] # NoBuilding}) = 7

\* the cards in the hand of player p
CardsHeld(s, p) ==
    LET h(i) == s.players[p].resources[RESOURCES[i]]
    IN  h(1) + h(2) + h(3) + h(4) + h(5)

\* the players holding more than seven cards
OverLimit(s) == {p \in Players(s) : CardsHeld(s, p) > 7}

\* q lists the members of ps, each once, in ascending order
IsAscendingListOf(q, ps) ==
    /\ {q[i] : i \in 1..Len(q)} = ps
    /\ \A i \in 1..Len(q) : \A j \in 1..Len(q) : i < j => q[i] < q[j]

\* C9 -- Dice branch: a ROLL_DICE with total 7 distributes nothing and sets
\* phase DISCARD with players_needing_discard the ascending list of exactly
\* the players holding more than 7 cards when there is such a player, phase
\* MOVE_ROBBER otherwise; with another total it distributes resources and
\* sets phase TRADE_BUILD_PLAY.
DiceBranch ==
    [][call'.action = <<"ROLL_DICE">> =>
        LET total == state'.last_roll[1] + state'.last_roll[2]
        IN  IF total = 7
            THEN /\ state'.bank = state.bank
                 /\ \A p \in Players(state) :
                        state'.players[p].resources = state.players[p].resources
                 /\ IF OverLimit(state) # {}
                    THEN /\ state'.phase = "DISCARD"
                         /\ IsAscendingListOf(state'.players_needing_discard, OverLimit(state))
                    ELSE /\ state'.phase = "MOVE_ROBBER"
                         /\ state'.players_needing_discard = <<>>
            ELSE /\ state'.phase = "TRADE_BUILD_PLAY"
                 /\ state'.bank = distribute_resources(state, total).bank
                 /\ \A p \in Players(state) :
                        state'.players[p].resources =
                            distribute_resources(state, total).players[p].resources]_vars

\* a 7 has queued players 0 and 2 and has passed over player 1, who holds
\* exactly seven cards
DiceBranchWitness ==
    /\ call.action = <<"ROLL_DICE">>
    /\ state.last_roll[1] + state.last_roll[2] = 7
    /\ state.phase = "DISCARD"
    /\ state.players_needing_discard = <<0, 2>>
    /\ CardsHeld(state, 1) = 7

\* C10 -- Discard resolution: in phase DISCARD each legal step takes exactly
\* floor(H/2) cards from the hand of the head of players_needing_discard (H
\* its hand total before the step), adds the same cards to the bank, pops
\* that player and changes no other hand; the phase stays DISCARD while the
\* queue is non-empty and becomes MOVE_ROBBER when it becomes empty.
DiscardResolution ==
    [][state.phase = "DISCARD" =>
        LET q == state.players_needing_discard
            pid == Head(q)
        IN  /\ call'.action[1] = "DISCARD_RESOURCES"
            /\ CardsHeld(state', pid) = CardsHeld(state, pid) - (CardsHeld(state, pid) \div 2)
            /\ \A r \in ResSet :
                  /\ state'.players[pid].resources[r] <= state.players[pid].resources[r]
                  /\ state'.bank[r] - state.bank[r]
                        = state.players[pid].resources[r] - state'.players[pid].resources[r]
            /\ \A p \in Players(state) \ {pid} :
                  state'.players[p].resources = state.players[p].resources
            /\ state'.players_needing_discard = Tail(q)
            /\ state'.phase = IF Tail(q) = <<>> THEN "MOVE_ROBBER" ELSE "DISCARD"]_vars

\* the second of two queued players has discarded: player 0 went from 10
\* cards to 5, player 2 from 9 to 5, player 1 kept its 7, and the robber is
\* to be moved
DiscardResolutionWitness ==
    /\ LastActionType = "DISCARD_RESOURCES"
    /\ state.phase = "MOVE_ROBBER"
    /\ state.players_needing_discard = <<>>
    /\ CardsHeld(state, 0) = 5
    /\ CardsHeld(state, 1) = 7
    /\ CardsHeld(state, 2) = 5

\* the 5-tuples of discards a hand allows for a count: at most what the
\* hand holds of each resource, count cards in all
DiscardsOf(hand, count) ==
    {t \in (0..hand["lumber"]) \X (0..hand["brick"]) \X (0..hand["wool"])
                \X (0..hand["grain"]) \X (0..hand["ore"]) :
        t[1] + t[2] + t[3] + t[4] + t[5] = count}

\* C11 -- Discard enumeration completeness: for every hand and count =
\* floor(sum(hand)/2), _enumerate_discard(hand, count) lists exactly the
\* 5-tuples t of non-negative integers with t[i] <= hand[i] for every
\* resource and sum(t) = count, each of them once.
DiscardEnumerationComplete ==
    result # <<>> =>
        LET hand == args[1]
            count == (hand["lumber"] + hand["brick"] + hand["wool"]
                        + hand["grain"] + hand["ore"]) \div 2
            listed == result[1]
        IN  /\ args[2] = count
            /\ \A i \in 1..Len(listed) : \A j \in 1..Len(listed) :
                  listed[i] = listed[j] => i = j
            /\ {listed[i] : i \in 1..Len(listed)}
                  = {<<"DISCARD_RESOURCES">> \o t : t \in DiscardsOf(hand, count)}

\* the discards of a hand of nine cards, three each of lumber, brick and
\* wool, have been listed: four cards to give up, in more than one way
DiscardEnumerationCompleteWitness ==
    /\ result # <<>>
    /\ args[1] = [lumber |-> 3, brick |-> 3, wool |-> 3, grain |-> 0, ore |-> 0]
    /\ args[2] = 4
    /\ Len(result[1]) = 12
    /\ \E i \in 1..Len(result[1]) : result[1][i] = <<"DISCARD_RESOURCES", 0, 1, 3, 0, 0>>

\* the players with a building on a vertex of hex h
OwnersAround(s, h) ==
    {p \in Players(s) :
        \E i \in DOMAIN s.topology.hex_vertices[h] :
            /\ s.vertex_buildings[s.topology.hex_vertices[h][i]] # NoBuilding
            /\ s.vertex_buildings[s.topology.hex_vertices[h][i]][2] = p}

\* C12 -- Robber branch: MOVE_ROBBER to hex h sets robber_hex = h and sets
\* phase STEAL if and only if a player other than the current player owns a
\* building on a vertex of h and holds at least one card; otherwise the
\* phase becomes TRADE_BUILD_PLAY.
RobberBranch ==
    [][call'.action[1] = "MOVE_ROBBER" =>
        LET h == call'.action[2]
            robbable == \E p \in OwnersAround(state, h) \ {state.current_player} :
                            CardsHeld(state, p) >= 1
        IN  /\ state'.robber_hex = h
            /\ state'.phase = "STEAL" <=> robbable
            /\ state'.phase = "TRADE_BUILD_PLAY" <=> ~robbable
            /\ state'.current_player = state.current_player]_vars

\* the robber has gone to a hex where only the player moving it has a
\* building, and cards: nobody is to be robbed
RobberBranchWitness ==
    /\ LastActionType = "MOVE_ROBBER"
    /\ state.robber_hex = call.action[2]
    /\ OwnersAround(state, state.robber_hex) = {state.current_player}
    /\ CardsHeld(state, state.current_player) >= 1
    /\ state.phase = "TRADE_BUILD_PLAY"

\* C13 -- Steal effect: a legal STEAL_RESOURCE naming victim v moves exactly
\* one unit of a resource r that v held from v's hand to the current
\* player's hand, leaves the bank and all other hands unchanged, and sets
\* phase TRADE_BUILD_PLAY.
StealEffect ==
    [][(call'.action[1] = "STEAL_RESOURCE" /\ call'.action[2] # None) =>
        LET v == call'.action[2]
            thief == state.current_player
        IN  /\ v \in Players(state) \ {thief}
            /\ \E r \in ResSet :
                  /\ state.players[v].resources[r] > 0
                  /\ state'.players[v].resources
                        = [state.players[v].resources EXCEPT ![r] = @ - 1]
                  /\ state'.players[thief].resources
                        = [state.players[thief].resources EXCEPT ![r] = @ + 1]
            /\ \A p \in Players(state) \ {v, thief} :
                  state'.players[p].resources = state.players[p].resources
            /\ state'.bank = state.bank
            /\ state'.phase = "TRADE_BUILD_PLAY"
            /\ state'.current_player = thief]_vars

\* player 2 has robbed player 0 of one of the five cards it had left after
\* discarding on a 7
StealEffectWitness ==
    /\ LastActionType = "STEAL_RESOURCE"
    /\ call.action[2] = 0
    /\ state.current_player = 2
    /\ state.phase = "TRADE_BUILD_PLAY"
    /\ state.last_roll[1] + state.last_roll[2] = 7
    /\ CardsHeld(state, 0) = 4

\* the sum of f over the set S
RECURSIVE SumOver(_, _)
SumOver(f, S) ==
    IF S = {} THEN 0
    ELSE LET x == CHOOSE y \in S : TRUE
         IN  f[x] + SumOver(f, S \ {x})

\* the hexes that produce resource r on a roll of total: their token is
\* the roll, their terrain yields r, and the robber is elsewhere
ProducingHexes(s, total, r) ==
    {h \in Hexes(s) :
        /\ s.hex_numbers[h] = total
        /\ h # s.robber_hex
        /\ TERRAIN_TO_RESOURCE[s.hex_terrains[h]] = r}

\* what player p claims on hex h: 1 for each settlement, 2 for each city
ClaimOn(s, h, p) ==
    LET corner(i) ==
            IF s.vertex_buildings[s.topology.hex_vertices[h][i]] = <<"settlement", p>> THEN 1
            ELSE IF s.vertex_buildings[s.topology.hex_vertices[h][i]] = <<"city", p>> THEN 2
            ELSE 0
    IN  corner(0) + corner(1) + corner(2) + corner(3) + corner(4) + corner(5)

\* what player p claims of resource r on a roll of total
ClaimOf(s, total, r, p) ==
    SumOver([h \in ProducingHexes(s, total, r) |-> ClaimOn(s, h, p)],
            ProducingHexes(s, total, r))

\* what all players together claim of resource r on a roll of total
DemandOf(s, total, r) ==
    SumOver([p \in Players(s) |-> ClaimOf(s, total, r, p)], Players(s))

\* C14 -- Production amounts: on a non-7 roll with sufficient bank supply
\* each player receives, from every hex whose token equals the roll and
\* that is not the robber hex, 1 unit of the hex's resource per own
\* settlement and 2 per own city on the hex; other hexes pay nothing.
ProductionAmounts ==
    [][call'.action = <<"ROLL_DICE">> =>
        LET total == state'.last_roll[1] + state'.last_roll[2]
        IN  (total # 7 /\ \A r \in ResSet : DemandOf(state, total, r) <= state.bank[r])
                => \A p \in Players(state) : \A r \in ResSet :
                      state'.players[p].resources[r]
                          = state.players[p].resources[r] + ClaimOf(state, total, r, p)]_vars

\* a roll has paid a city: the hex of its token has a city on a corner, is
\* not under the robber, and the bank still holds cards of its resource
ProductionAmountsWitness ==
    /\ call.action = <<"ROLL_DICE">>
    /\ \E h \in Hexes(state) :
          /\ state.hex_numbers[h] = state.last_roll[1] + state.last_roll[2]
          /\ h # state.robber_hex
          /\ TERRAIN_TO_RESOURCE[state.hex_terrains[h]] # "none"
          /\ \E i \in 0..5 : state.vertex_buildings[state.topology.hex_vertices[h][i]][1] = "city"
          /\ \E p \in Players(state) :
                state.players[p].resources[TERRAIN_TO_RESOURCE[state.hex_terrains[h]]] >= 2

\* C15 -- Bank-shortage withholding: on a non-7 roll, for each resource r,
\* if the demand for r summed over all producing hexes of the roll exceeds
\* the bank's supply of r, no player receives any unit of r on that roll
\* (also when the demand comes from two hexes of the same resource);
\* otherwise every claim for r is paid in full.
BankShortageWithholding ==
    [][call'.action = <<"ROLL_DICE">> =>
        LET total == state'.last_roll[1] + state'.last_roll[2]
        IN  total # 7 =>
                \A r \in ResSet : \A p \in Players(state) :
                    state'.players[p].resources[r]
                        = IF DemandOf(state, total, r) > state.bank[r]
                          THEN state.players[p].resources[r]
                          ELSE state.players[p].resources[r] + ClaimOf(state, total, r, p)]_vars

\* the sixth roll of 6 in a row has found 2 ore in the bank for claims of 3
\* (1 of player 2 on hex 6, 2 of player 0 on hex 9): player 2 was paid its
\* ore, player 0 was not
BankShortageWithholdingWitness ==
    /\ call.action = <<"ROLL_DICE">>
    /\ state.turn_number = 6
    /\ state.last_roll[1] + state.last_roll[2] = 6
    /\ DemandOf(state, 6, "ore") = 3
    /\ state.bank["ore"] = 1
    /\ state.players[0].resources["ore"] = 11
    /\ state.players[2].resources["ore"] = 7

\* the action types after which step calls update_longest_road
RoadUpdating == {"BUILD_ROAD", "BUILD_SETTLEMENT", "PLACE_ROAD_BUILDING_ROAD"}

\* C16 -- Longest-road retention: after every action that triggers
\* update_longest_road, if the previous holder H still has a recomputed road
\* length >= 5, then H keeps the award if and only if no other player's
\* recomputed longest road is strictly greater than H's recomputed longest
\* road; a player whose length strictly exceeds H's takes the award, a
\* player who merely ties does not.
LongestRoadRetention ==
    [][call'.action[1] \in RoadUpdating =>
        LET H == state.longest_road_player
        IN  (H # None /\ calculate_longest_road(state', H) >= MIN_LONGEST_ROAD) =>
                LET exceeding == {p \in Players(state) \ {H} :
                                    calculate_longest_road(state', p)
                                        > calculate_longest_road(state', H)}
                IN  /\ state'.longest_road_player = H <=> exceeding = {}
                    /\ state'.longest_road_player # H
                          => state'.longest_road_player \in exceeding]_vars

\* player 1, whose road is six long, has settled vertex 47 on player 0's
\* road of six, which is five long now: player 0 still holds the award, with
\* a stored length of six
LongestRoadRetentionWitness ==
    /\ call.action = <<"BUILD_SETTLEMENT", 47>>
    /\ state.vertex_buildings[47] = <<"settlement", 1>>
    /\ state.longest_road_player = 0
    /\ state.longest_road_length = 6
    /\ calculate_longest_road(state, 0) = 5
    /\ calculate_longest_road(state, 1) = 6

\* the award recomputed from scratch: <<holder, length>>
FromScratch(s) ==
    LET len(p) == calculate_longest_road(s, p)
        best == SetMax({len(p) : p \in Players(s)})
    IN  IF best >= MIN_LONGEST_ROAD
        THEN <<CHOOSE p \in Players(s) :
                    /\ len(p) = best
                    /\ \A q \in Players(s) : len(q) = best => p <= q,
               best>>
        ELSE <<None, 0>>

\* C17 -- Longest-road re-scan: when, after an update, the award holder's
\* recomputed road length is below 5, the award is recomputed from scratch:
\* it goes to the lowest-index player among those with the maximum
\* recomputed length if that maximum is >= 5, with longest_road_length set
\* to that maximum, and to nobody (holder None, length 0) if no player has
\* length >= 5.
LongestRoadRescanned ==
    [][call'.action[1] \in RoadUpdating =>
        LET H == state.longest_road_player
        IN  (H # None /\ calculate_longest_road(state', H) < MIN_LONGEST_ROAD) =>
                <<state'.longest_road_player, state'.longest_road_length>>
                    = FromScratch(state')]_vars

\* player 1 has settled vertex 42 in the middle of player 0's road of six
\* edges, which leaves it four: the award has gone from player 0 to player 1
\* for its road of five
LongestRoadRescannedWitness ==
    /\ call.action = <<"BUILD_SETTLEMENT", 42>>
    /\ state.vertex_buildings[42] = <<"settlement", 1>>
    /\ \A e \in {36, 41, 53, 54, 62, 68} : state.edge_roads[e] = 0
    /\ calculate_longest_road(state, 0) = 4
    /\ calculate_longest_road(state, 1) = 5
    /\ state.longest_road_player = 1
    /\ state.longest_road_length = 5

\* the number of knights player p has played
Knights(s, p) == s.players[p].knights_played

\* C18 -- Largest army: in every state reachable by legal actions,
\* largest_army_player is None exactly when no player has knights_played
\* >= 3; the first player to reach 3 played knights gets the award; the
\* holder changes only when another player's knights_played becomes
\* strictly greater than the holder's count (a tie never transfers it); and
\* the holder never loses the award to None.
LargestArmyPolicy ==
    /\ [](state.largest_army_player = None
            <=> \A p \in Players(state) : Knights(state, p) < MIN_LARGEST_ARMY)
    /\ [][LET H == state.largest_army_player
              N == state'.largest_army_player
          IN  /\ (H = None /\ N # None) =>
                    /\ Knights(state, N) < MIN_LARGEST_ARMY
                    /\ Knights(state', N) >= MIN_LARGEST_ARMY
              /\ H # None => N # None
              /\ (H # None /\ N # H) =>
                    /\ Knights(state', N) > Knights(state', H)
                    /\ Knights(state, N) <= Knights(state, H)
              /\ (H # None /\ \A p \in Players(state) : Knights(state', p) <= Knights(state', H))
                    => N = H]_vars

\* player 1 has played its third knight after player 0 had played three:
\* the tie leaves the award with player 0
LargestArmyPolicyWitness ==
    /\ call.action = <<"PLAY_KNIGHT">>
    /\ state.current_player = 1
    /\ Knights(state, 0) = 3
    /\ Knights(state, 1) = 3
    /\ state.largest_army_player = 0

\* the number of vertices where player p has a building of the given kind
BuildingsOf(s, kind, p) ==
    SumOver([v \in Vertices(s) |-> IF s.vertex_buildings[v] = <<kind, p>> THEN 1 ELSE 0],
            Vertices(s))

\* the number of victory-point cards in a list of cards
VpCards(cards) ==
    LET IsVp(c) == c = "victory_point"
    IN  Len(SelectSeq(cards, IsVp))

\* C19 -- Victory-point formula: for every state and player p,
\* calculate_vp(state, p) equals (number of p's settlements) + 2*(number of
\* p's cities) + 2 if p is longest_road_player + 2 if p is
\* largest_army_player + the number of victory_point cards in p's dev_cards
\* and new_dev_cards together; it reads no stored score and does not modify
\* the state.
VictoryPointFormula ==
    (caller = "calculate_vp" /\ result # <<>>) =>
        LET p == args[1]
        IN  /\ result[1] = BuildingsOf(state, "settlement", p)
                            + 2 * BuildingsOf(state, "city", p)
                            + (IF state.longest_road_player = p THEN 2 ELSE 0)
                            + (IF state.largest_army_player = p THEN 2 ELSE 0)
                            + VpCards(state.players[p].dev_cards)
                            + VpCards(state.players[p].new_dev_cards)
            /\ state = held

\* player 0 with a city, a settlement, the longest road, a victory-point
\* card next to a knight and one bought this turn has 7 points
VictoryPointFormulaWitness ==
    /\ caller = "calculate_vp"
    /\ args = <<0>>
    /\ state.vertex_buildings[19] = <<"city", 0>>
    /\ state.vertex_buildings[31] = <<"settlement", 0>>
    /\ state.longest_road_player = 0
    /\ state.largest_army_player = None
    /\ state.players[0].dev_cards = <<"knight", "victory_point">>
    /\ state.players[0].new_dev_cards = <<"victory_point">>
    /\ result = <<7>>

\* C20 -- END_TURN effect: an END_TURN by player p moves all of p's
\* new_dev_cards into dev_cards and clears p's
\* has_played_dev_card_this_turn; then, if p's VP >= 10, phase becomes
\* GAME_OVER with winner = p and current_player and turn_number unchanged;
\* otherwise current_player becomes (p+1) mod player_count, turn_number
\* increases by 1, last_roll is cleared and phase becomes ROLL_DICE.  Board,
\* hands and bank are unchanged in both cases.
EndTurnEffect ==
    [][call'.action = <<"END_TURN">> =>
        LET p == state.current_player
        IN  /\ state'.players[p].dev_cards
                    = state.players[p].dev_cards \o state.players[p].new_dev_cards
            /\ state'.players[p].new_dev_cards = <<>>
            /\ state'.players[p].has_played_dev_card_this_turn = FALSE
            /\ IF calculate_vp(state', p) >= VP_TO_WIN
               THEN /\ state'.phase = "GAME_OVER"
                    /\ state'.winner = p
                    /\ state'.current_player = p
                    /\ state'.turn_number = state.turn_number
               ELSE /\ state'.current_player = (p + 1) % state.player_count
                    /\ state'.turn_number = state.turn_number + 1
                    /\ state'.last_roll = <<>>
                    /\ state'.phase = "ROLL_DICE"
                    /\ state'.winner = state.winner
            /\ state'.vertex_buildings = state.vertex_buildings
            /\ state'.edge_roads = state.edge_roads
            /\ state'.robber_hex = state.robber_hex
            /\ state'.bank = state.bank
            /\ \A q \in Players(state) :
                  state'.players[q].resources = state.players[q].resources
            /\ \A q \in Players(state) \ {p} : state'.players[q] = state.players[q]]_vars

\* player 0 has ended the turn on which it played the knight bought on
\* turn 1 and bought another card: that card is playable, the flag is
\* cleared and player 1 is to roll
EndTurnEffectWitness ==
    /\ call.action = <<"END_TURN">>
    /\ state.phase = "ROLL_DICE"
    /\ state.current_player = 1
    /\ state.last_roll = <<>>
    /\ state.players[0].knights_played = 1
    /\ state.players[0].dev_cards # <<>>
    /\ state.players[0].new_dev_cards = <<>>
    /\ ~state.players[0].has_played_dev_card_this_turn

\* the phases a development card opens
SubPhases == {"ROAD_BUILDING_PLACE", "YEAR_OF_PLENTY_PICK", "MONOPOLY_PICK"}

\* C21 -- Sub-phase return: whenever a dev-card play puts the game into
\* ROAD_BUILDING_PLACE, YEAR_OF_PLENTY_PICK or MONOPOLY_PICK, continued
\* legal play always brings the phase back to TRADE_BUILD_PLAY (after at
\* most 2 actions for road building, 1 for the other two) with the same
\* current_player and without passing through any other phase; the game
\* never gets stuck in a sub-phase.
SubPhaseReturn ==
    /\ [](state.phase \in SubPhases =>
            /\ get_legal_actions(state) # {}
            /\ state.phase = "ROAD_BUILDING_PLACE"
                  => state.road_building_roads_left \in 1..2)
    /\ [][state.phase \in SubPhases =>
            /\ state'.current_player = state.current_player
            /\ IF state.phase = "ROAD_BUILDING_PLACE" /\ state.road_building_roads_left = 2
               THEN \/ state'.phase = "TRADE_BUILD_PLAY"
                    \/ /\ state'.phase = "ROAD_BUILDING_PLACE"
                       /\ state'.road_building_roads_left = 1
               ELSE state'.phase = "TRADE_BUILD_PLAY"]_vars

\* player 2 has played its road-building card with thirteen roads left to
\* place and no edge to place one on: no action is legal
SubPhaseReturnWitness ==
    /\ call.action = <<"PLAY_ROAD_BUILDING">>
    /\ state.phase = "ROAD_BUILDING_PLACE"
    /\ state.current_player = 2
    /\ state.players[2].remaining_roads = 13
    /\ state.road_building_roads_left = 2
    /\ get_valid_road_edges_no_resource_check(state, 2) = {}
    /\ get_legal_actions(state) = {}

\* player p has a building on a vertex of a harbor of the given type
OnHarbor(s, p, type) ==
    \E i \in DOMAIN s.harbors :
        /\ s.harbors[i].type = type
        /\ \E k \in 1..2 : s.vertex_buildings[s.harbors[i].vertices[k]][2] = p

\* the ratio at which player p gives a resource to the bank
RatioOf(s, p, give) ==
    IF OnHarbor(s, p, give) THEN 2 ELSE IF OnHarbor(s, p, "generic") THEN 3 ELSE 4

\* C22 -- Maritime trade: MARITIME_TRADE(give, receive) is legal for the
\* current player in TRADE_BUILD_PLAY exactly when give != receive, the
\* player holds at least ratio units of give and the bank holds at least 1
\* unit of receive, where ratio is 2 if the player has a building on a
\* vertex of a give-specific harbor, else 3 if on a generic harbor vertex,
\* else 4; applying it decreases the player's give by ratio and increases
\* receive by 1, changes the bank by the exact inverse, and leaves the
\* phase and everything else unchanged.
MaritimeTradeRule ==
    /\ [](state.phase = "TRADE_BUILD_PLAY" =>
            {a \in get_legal_actions(state) : a[1] = "MARITIME_TRADE"}
                = {<<"MARITIME_TRADE", give, receive>> : <<give, receive>> \in
                    {t \in ResSet \X ResSet :
                        /\ t[1] # t[2]
                        /\ state.players[state.current_player].resources[t[1]]
                              >= RatioOf(state, state.current_player, t[1])
                        /\ state.bank[t[2]] >= 1}})
    /\ [][call'.action[1] = "MARITIME_TRADE" =>
            LET p == state.current_player
                give == call'.action[2]
                receive == call'.action[3]
                ratio == RatioOf(state, p, give)
                hand == [state.players[p].resources EXCEPT ![give] = @ - ratio,
                                                           ![receive] = @ + 1]
                bank == [state.bank EXCEPT ![give] = @ + ratio, ![receive] = @ - 1]
            IN  state' = [state EXCEPT !.players[p].resources = hand, !.bank = bank]]_vars

\* player 2, with settlements on the ore harbor and on a generic harbor,
\* has given 2 of its 5 ore for 1 wool
MaritimeTradeRuleWitness ==
    /\ call.action = <<"MARITIME_TRADE", "ore", "wool">>
    /\ state.current_player = 2
    /\ OnHarbor(state, 2, "ore")
    /\ OnHarbor(state, 2, "generic")
    /\ state.players[2].resources["ore"] = 3
    /\ state.players[2].resources["wool"] = 1
    /\ state.phase = "TRADE_BUILD_PLAY"

\* C23 -- City upgrade: BUILD_CITY(v) is legal only when vertex v holds a
\* settlement owned by the current player, the player has remaining_cities
\* > 0 and holds 2 grain and 3 ore; applying it turns v into that player's
\* city, decreases remaining_cities by 1, increases remaining_settlements
\* by 1, moves exactly 2 grain and 3 ore from the hand to the bank (no
\* lumber, brick or wool), and changes no other vertex.
CityUpgrade ==
    /\ [](\A a \in get_legal_actions(state) : a[1] = "BUILD_CITY" =>
            LET p == state.current_player
            IN  /\ state.vertex_buildings[a[2]] = <<"settlement", p>>
                /\ state.players[p].remaining_cities > 0
                /\ state.players[p].resources["grain"] >= 2
                /\ state.players[p].resources["ore"] >= 3)
    /\ [][call'.action[1] = "BUILD_CITY" =>
            LET p == state.current_player
                v == call'.action[2]
                me == state.players[p]
            IN  /\ state'.vertex_buildings = [state.vertex_buildings EXCEPT ![v] = <<"city", p>>]
                /\ state'.players[p].remaining_cities = me.remaining_cities - 1
                /\ state'.players[p].remaining_settlements = me.remaining_settlements + 1
                /\ state'.players[p].resources
                      = [me.resources EXCEPT !["grain"] = @ - 2, !["ore"] = @ - 3]
                /\ state'.bank = [state.bank EXCEPT !["grain"] = @ + 2, !["ore"] = @ + 3]]_vars

\* player 0 has turned its settlement on vertex 19 into a city and has four
\* settlements in stock again
CityUpgradeWitness ==
    /\ call.action = <<"BUILD_CITY", 19>>
    /\ state.vertex_buildings[19] = <<"city", 0>>
    /\ state.vertex_buildings[31] = <<"settlement", 0>>
    /\ state.players[0].remaining_cities = MAX_CITIES - 1
    /\ state.players[0].remaining_settlements = MAX_SETTLEMENTS - 1

\* the buildings and roads of player q
PiecesOf(s, q) ==
    <<{v \in Vertices(s) : s.vertex_buildings[v][2] = q},
      {e \in Edges(s) : s.edge_roads[e] = q}>>

\* C24 -- Acting player: in every reachable state get_acting_player()
\* returns the head of players_needing_discard when the phase is DISCARD
\* and current_player in every other phase, and the player it returns is
\* exactly the player whose hand/pieces the next legal action modifies as
\* the actor (the discarding player in DISCARD, the roller in MOVE_ROBBER
\* and STEAL).
ActingPlayer ==
    /\ [](IF state.phase = "DISCARD"
          THEN /\ state.players_needing_discard # <<>>
               /\ get_acting_player(state) = Head(state.players_needing_discard)
          ELSE get_acting_player(state) = state.current_player)
    /\ [][LET actor == get_acting_player(state)
              type == call'.action[1]
              others == Players(state) \ {actor}
          IN  /\ type \notin {"ROLL_DICE", "STEAL_RESOURCE", "PICK_MONOPOLY_RESOURCE"}
                    => \A q \in others : state'.players[q] = state.players[q]
              /\ \A q \in others : PiecesOf(state', q) = PiecesOf(state, q)
              /\ type = "DISCARD_RESOURCES" =>
                    /\ state.phase = "DISCARD"
                    /\ \A i \in 1..Len(RESOURCES) :
                          state'.players[actor].resources[RESOURCES[i]]
                              = state.players[actor].resources[RESOURCES[i]]
                                  - call'.action[i + 1]
              /\ type \in {"MOVE_ROBBER", "STEAL_RESOURCE"} =>
                    /\ actor = state.current_player
                    /\ state'.current_player = actor
              /\ (type = "STEAL_RESOURCE" /\ call'.action[2] # None) =>
                    CardsHeld(state', actor) = CardsHeld(state, actor) + 1
              /\ type = "PICK_MONOPOLY_RESOURCE" =>
                    \A q \in others : \A r \in ResSet :
                        state'.players[q].resources[r] <= state.players[q].resources[r]]_vars

\* player 2 has rolled a 7 and player 0 is the one to discard
ActingPlayerWitness ==
    /\ state.phase = "DISCARD"
    /\ state.current_player = 2
    /\ state.players_needing_discard # <<>>
    /\ get_acting_player(state) = 0

\* C25 -- Terminal reward: step() returns reward 0 on every step that does
\* not end the game, and on the step that ends the game (done = True) it
\* returns +1 for the winning player (the player who took the END_TURN),
\* i.e. a non-zero terminal signal.
TerminalReward ==
    call.action # <<>> =>
        IF call.done
        THEN /\ call.action = <<"END_TURN">>
             /\ state.winner = state.current_player
             /\ call.reward = 1
        ELSE call.reward = 0

\* player 0 has ended its turn with ten points: step reported done with
\* player 0 as the winner, and a reward of 0
TerminalRewardWitness ==
    /\ call.action = <<"END_TURN">>
    /\ call.done
    /\ state.phase = "GAME_OVER"
    /\ state.winner = 0
    /\ calculate_vp(state, 0) >= VP_TO_WIN
    /\ call.info = {<<"winner", 0>>}
    /\ call.reward = 0

\* C26 -- GAME_OVER is terminal: in every reachable state the winner field
\* is set (not None) exactly when the phase is GAME_OVER; in that phase
\* get_legal_actions() returns the empty list, step reported done = True
\* with info['winner'] equal to the winner, and in every other reachable
\* phase done is False.
GameOverTerminal ==
    /\ state.winner # None <=> state.phase = "GAME_OVER"
    /\ state.phase = "GAME_OVER" =>
          /\ get_legal_actions(state) = {}
          /\ call.done
          /\ call.info = {<<"winner", state.winner>>}
    /\ state.phase # "GAME_OVER" => ~call.done

\* the game is over on turn 13 with player 0 as the winner and no legal
\* action left
GameOverTerminalWitness ==
    /\ state.phase = "GAME_OVER"
    /\ state.winner = 0
    /\ state.turn_number = 13
    /\ get_legal_actions(state) = {}
    /\ call.done

\* the number of hexes around vertex v that produce resource r
ProducingAround(s, v, r) ==
    Cardinality({h \in s.topology.vertex_adjacent_hexes[v] :
                    TERRAIN_TO_RESOURCE[s.hex_terrains[h]] = r})

\* what PLACE_SETUP_SETTLEMENT pays: nothing in the draft slots 0..N-1, one
\* unit per producing hex around the vertex in the slots N..2N-1
SetupGrantStep ==
    call'.action[1] = "PLACE_SETUP_SETTLEMENT" =>
        LET p == state.current_player
            v == call'.action[2]
            second == state.setup_index >= state.player_count
            paid(r) == IF second THEN ProducingAround(state, v, r) ELSE 0
        IN  /\ p = get_setup_order(state.player_count)[state.setup_index]
            /\ \A r \in ResSet :
                  /\ state'.players[p].resources[r] = state.players[p].resources[r] + paid(r)
                  /\ state'.bank[r] = state.bank[r] - paid(r)
            /\ \A q \in Players(state) \ {p} :
                  state'.players[q].resources = state.players[q].resources

\* the draft has just ended and every player holds lo to 3 cards and has 2
\* settlements and 2 roads on the board
SetupEnd(lo) ==
    (LastActionType = "PLACE_SETUP_ROAD" /\ state.phase = "ROLL_DICE") =>
        \A p \in Players(state) :
            /\ CardsHeld(state, p) \in lo..3
            /\ PiecesOf(state, p)[1] = get_player_vertices(state, p)
            /\ Cardinality(PiecesOf(state, p)[1]) = 2
            /\ \A v \in PiecesOf(state, p)[1] : state.vertex_buildings[v][1] = "settlement"
            /\ Cardinality(PiecesOf(state, p)[2]) = 2

\* C27 -- Setup resource grant: a player's first setup settlement (draft
\* slots 0..N-1) grants no resources; the second one (draft slots N..2N-1)
\* grants that player exactly 1 unit of the resource of each producing hex
\* adjacent to the placed vertex (nothing for the desert), taken from the
\* bank; so when setup ends every player holds between 0 and 3 cards (0
\* when its second settlement touches no producing hex) and has exactly 2
\* settlements and 2 roads on the board.
SetupResourceGrant == [][SetupGrantStep]_vars /\ []SetupEnd(0)

\* C27 as stated: the same, with every player holding between 1 and 3
\* cards when setup ends.
SetupResourceGrantAtLeastOne == [][SetupGrantStep]_vars /\ []SetupEnd(1)

\* the draft has ended with player 0's second settlement on vertex 27,
\* next to the desert and to no other hex: player 0 holds no card
SetupResourceGrantWitness ==
    /\ LastActionType = "PLACE_SETUP_ROAD"
    /\ state.phase = "ROLL_DICE"
    /\ state.turn_number = 1
    /\ state.vertex_buildings[27] = <<"settlement", 0>>
    /\ \A h \in state.topology.vertex_adjacent_hexes[27] : state.hex_terrains[h] = "desert"
    /\ CardsHeld(state, 0) = 0
    /\ \A p \in {1, 2} : CardsHeld(state, p) \in 1..3

\* C28 -- Topology invariants: build_board_topology on the standard 19-hex
\* layout yields exactly 54 vertices, 72 edges and 19 hexes; every vertex
\* has 2 or 3 adjacent edges; every edge has two distinct endpoints stored
\* as (min, max), and edge e appears in vertex_adjacent_edges[v] exactly
\* for its two endpoints v; every hex has 6 distinct vertices and 6
\* distinct edges forming a cycle.
TopologyInvariants ==
    LET t == state.topology
        V == 0..(t.vertex_count - 1)
        E == 0..(t.edge_count - 1)
        H == DOMAIN t.hex_coords
    IN  /\ t.vertex_count = 54
        /\ t.edge_count = 72
        /\ Cardinality(H) = 19
        /\ DOMAIN t.vertex_positions = V
        /\ DOMAIN t.vertex_adjacent_edges = V
        /\ DOMAIN t.edge_endpoints = E
        /\ DOMAIN t.hex_vertices = H
        /\ DOMAIN t.hex_edges = H
        /\ \A v \in V : Cardinality(t.vertex_adjacent_edges[v]) \in {2, 3}
        /\ \A e \in E :
              /\ t.edge_endpoints[e][1] \in V
              /\ t.edge_endpoints[e][2] \in V
              /\ t.edge_endpoints[e][1] < t.edge_endpoints[e][2]
              /\ {v \in V : e \in t.vertex_adjacent_edges[v]}
                    = {t.edge_endpoints[e][1], t.edge_endpoints[e][2]}
        /\ \A h \in H :
              /\ Cardinality({t.hex_vertices[h][i] : i \in 0..5}) = 6
              /\ Cardinality({t.hex_edges[h][i] : i \in 0..5}) = 6
              /\ \A i \in 0..5 :
                    LET a == t.hex_vertices[h][i]
                        b == t.hex_vertices[h][(i + 1) % 6]
                    IN  t.edge_endpoints[t.hex_edges[h][i]] = <<Min(a, b), Max(a, b)>>

\* reset has built the board: a corner of the coast (vertex 4) has two
\* edges, an inner vertex (19) three, and edge 22 runs from 18 to 19
TopologyInvariantsWitness ==
    /\ call = NoCall
    /\ state.phase = "SETUP_PLACE_SETTLEMENT"
    /\ state.topology = build_board_topology
    /\ state.topology.vertex_adjacent_edges[4] = {3, 4}
    /\ state.topology.vertex_adjacent_edges[19] = {22, 23, 36}
    /\ state.topology.edge_endpoints[22] = <<18, 19>>
    /\ state.topology.hex_vertices[0] = [i \in 0..5 |-> i]

\* C29 -- Seeded reproducibility: two engine instances that call
\* reset(seed) with the same seed and then apply the same sequence of legal
\* actions produce identical states after every step (same terrain, tokens,
\* deck order, dice rolls and stolen cards); the only sources of difference
\* between two runs are the seed and the chosen actions.  Whatever the two
\* generators held before reset and however the calls interleave: the two
\* objects that have applied equally many actions hold equal states, and
\* the action the one behind is handed is legal for it.
SeededReproducibility ==
    /\ (/\ result[1].state.phase # "PRE_GAME"
        /\ result[2].state.phase # "PRE_GAME"
        /\ args.applied[1] = args.applied[2])
            => result[1].state = result[2].state
    /\ \A i \in 1..2 :
          (/\ result[i].state.phase # "PRE_GAME"
           /\ args.applied[i] < Len(args.actions))
              => args.actions[args.applied[i] + 1] \in get_legal_actions(result[i].state)

\* two objects built with different generators, after the same fifteen
\* actions: a 7 was rolled with the thirteenth and a card was stolen with
\* the fifteenth
SeededReproducibilityWitness ==
    /\ caller = "seeded"
    /\ args.applied = <<15, 15>>
    /\ Len(args.actions) = 15
    /\ args.actions[13] = <<"ROLL_DICE">>
    /\ args.actions[15][1] = "STEAL_RESOURCE"
    /\ args.actions[15][2] # None
    /\ result[1].state.last_roll[1] + result[1].state.last_roll[2] = 7
    /\ result[1].state.phase = "TRADE_BUILD_PLAY"
    /\ args.seed = 9
    /\ result[1].rng.pos = result[2].rng.pos
    /\ result[1].rng.pos = 62

\* vs, a sequence of vertices, is a trail of player p: every step runs
\* along a road of p, no road is used twice, and no vertex strictly inside
\* the sequence holds a building of somebody else
RoadBetween(s, a, b) ==
    {eid \in s.topology.vertex_adjacent_edges[a] :
        s.topology.edge_endpoints[eid] = <<Min(a, b), Max(a, b)>>}

IsTrail(s, p, vs) ==
    /\ Len(vs) >= 1
    /\ \A i \in 1..(Len(vs) - 1) :
          \E eid \in RoadBetween(s, vs[i], vs[i + 1]) : s.edge_roads[eid] = p
    /\ \A i \in 1..(Len(vs) - 1) : \A j \in 1..(Len(vs) - 1) :
          i < j => RoadBetween(s, vs[i], vs[i + 1]) # RoadBetween(s, vs[j], vs[j + 1])
    /\ \A i \in 2..(Len(vs) - 1) :
          \/ s.vertex_buildings[vs[i]] = NoBuilding
          \/ s.vertex_buildings[vs[i]][2] = p

\* the greatest number of edges of a trail of p from length k on
RECURSIVE LongestTrailFrom(_, _, _, _)
LongestTrailFrom(s, p, k, trails) ==
    LET longer == {vs \in UNION {{Append(t, v) :
                                     v \in s.topology.vertex_adjacent_vertices[t[Len(t)]]} :
                                  t \in trails} :
                      IsTrail(s, p, vs)}
    IN  IF longer = {} THEN k ELSE LongestTrailFrom(s, p, k + 1, longer)

LongestTrail(s, p) == LongestTrailFrom(s, p, 0, {<<v>> : v \in Vertices(s)})

\* C30 -- Longest-road value: for every board state and player p,
\* calculate_longest_road(state, p) equals the maximum number of edges of
\* a trail (walk using each edge at most once, vertices may repeat) made
\* only of p's roads in which no interior vertex holds an opponent's
\* building (an opponent-occupied vertex may only be an end of the trail);
\* it is 0 when p owns no road.
LongestRoadValue ==
    (caller = "calculate_longest_road" /\ result # <<>>) =>
        /\ result[1] = LongestTrail(state, args[1])
        /\ (\A eid \in Edges(state) : state.edge_roads[eid] # args[1]) => result[1] = 0

\* the ring of hex 9 closed, the road to vertex 20 beside it, the city of
\* player 1 on vertex 29: a trail from 20 ends on 29 after four edges
\* either way round, the trail from 29 round the ring back to 29 has six
LongestRoadValueWitness ==
    /\ caller = "calculate_longest_road"
    /\ result = <<6>>
    /\ args = <<0>>
    /\ \A eid \in RingEdges \cup {25} : state.edge_roads[eid] = 0
    /\ state.vertex_buildings[29] = <<"city", 1>>
    /\ state.vertex_buildings[21] = NoBuilding

\* p owns a building on v; p owns a road on an edge that ends on v
OwnsBuildingOn(s, p, v) == s.vertex_buildings[v] # NoBuilding /\ s.vertex_buildings[v][2] = p

OwnsRoadAt(s, p, v) ==
    \E eid \in Edges(s) :
        /\ v \in {s.topology.edge_endpoints[eid][1], s.topology.edge_endpoints[eid][2]}
        /\ s.edge_roads[eid] = p

\* v is accessible to p; with `blocking`, an own road does not make a
\* vertex accessible on which somebody else has built
Accessible(s, p, v, blocking) ==
    \/ OwnsBuildingOn(s, p, v)
    \/ /\ OwnsRoadAt(s, p, v)
       /\ blocking => s.vertex_buildings[v] = NoBuilding

RoadConditions(s, p, e, paid, blocking) ==
    /\ s.edge_roads[e] = None
    /\ s.players[p].remaining_roads > 0
    /\ paid => (s.players[p].resources["lumber"] >= 1 /\ s.players[p].resources["brick"] >= 1)
    /\ \/ Accessible(s, p, s.topology.edge_endpoints[e][1], blocking)
       \/ Accessible(s, p, s.topology.edge_endpoints[e][2], blocking)

RoadLegalityWith(blocking) ==
    LET legal == get_legal_actions(state)
        p == state.current_player
    IN  /\ state.phase = "TRADE_BUILD_PLAY" =>
              {a[2] : a \in {b \in legal : b[1] = "BUILD_ROAD"}}
                  = {e \in Edges(state) : RoadConditions(state, p, e, TRUE, blocking)}
        /\ state.phase = "ROAD_BUILDING_PLACE" =>
              {a[2] : a \in {b \in legal : b[1] = "PLACE_ROAD_BUILDING_ROAD"}}
                  = {e \in Edges(state) : RoadConditions(state, p, e, FALSE, blocking)}

\* C31 -- Road legality: in TRADE_BUILD_PLAY, BUILD_ROAD(e) is legal for the
\* current player p if and only if edge e holds no road, p has
\* remaining_roads > 0, p holds 1 lumber and 1 brick, and at least one
\* endpoint of e is accessible to p, where a vertex is accessible when p
\* owns a building on it, or nobody has built on it and p owns a road on an
\* edge adjacent to it; PLACE_ROAD_BUILDING_ROAD(e) is legal under the same
\* conditions without the resource requirement.
RoadLegality == RoadLegalityWith(TRUE)

\* C31 as stated: a vertex is accessible when p owns a building on it or p
\* owns a road on an edge adjacent to it
RoadLegalityPastBuildings == RoadLegalityWith(FALSE)

\* the current player can pay for a road, and an own road ends on a vertex
\* somebody else has built on, with a free edge beyond it that is reached
\* from nowhere else
RoadLegalityWitness ==
    /\ state.phase = "TRADE_BUILD_PLAY"
    /\ \E e \in Edges(state) :
          /\ RoadConditions(state, state.current_player, e, TRUE, FALSE)
          /\ ~RoadConditions(state, state.current_player, e, TRUE, TRUE)
    /\ \E e \in Edges(state) : <<"BUILD_ROAD", e>> \in get_legal_actions(state)

PlayableCards == {"knight", "road_building", "year_of_plenty", "monopoly"}

PlayActions ==
    [c \in PlayableCards |->
        CASE c = "knight" -> <<"PLAY_KNIGHT">>
          [] c = "road_building" -> <<"PLAY_ROAD_BUILDING">>
          [] c = "year_of_plenty" -> <<"PLAY_YEAR_OF_PLENTY">>
          [] c = "monopoly" -> <<"PLAY_MONOPOLY">>]

CardsOfType(cards, c) == Cardinality({i \in 1..Len(cards) : cards[i] = c})

\* a play action is offered exactly for a card of the playable collection,
\* in TRADE_BUILD_PLAY, while no card was played this turn
PlayOffered ==
    LET p == state.current_player
        legal == get_legal_actions(state)
    IN  \A c \in PlayableCards :
            (PlayActions[c] \in legal) <=>
                /\ state.phase = "TRADE_BUILD_PLAY"
                /\ ~state.players[p].has_played_dev_card_this_turn
                /\ CardsOfType(state.players[p].dev_cards, c) >= 1

PlayStep ==
    LET a == call'.action
        p == state.current_player
        before == state.players[p]
        after == state'.players[p]
    IN  /\ (\E c \in PlayableCards : a = PlayActions[c]) =>
              /\ ~before.has_played_dev_card_this_turn
              /\ after.has_played_dev_card_this_turn
              /\ after.new_dev_cards = before.new_dev_cards
              /\ Len(after.dev_cards) = Len(before.dev_cards) - 1
              /\ \A c \in PlayableCards \cup {"victory_point"} :
                    CardsOfType(after.dev_cards, c) =
                        CardsOfType(before.dev_cards, c)
                            - (IF c \in PlayableCards /\ a = PlayActions[c] THEN 1 ELSE 0)
        /\ a = <<"BUY_DEV_CARD">> =>
              /\ after.dev_cards = before.dev_cards
              /\ after.new_dev_cards
                    = Append(before.new_dev_cards, state.dev_card_deck[Len(state.dev_card_deck)])
              /\ after.has_played_dev_card_this_turn = before.has_played_dev_card_this_turn
        /\ (before.has_played_dev_card_this_turn /\ a # <<"END_TURN">>) =>
              /\ state'.current_player = p
              /\ after.has_played_dev_card_this_turn
        /\ (a # <<"END_TURN">> /\ \A c \in PlayableCards : a # PlayActions[c]) =>
              \A q \in Players(state) : state'.players[q].dev_cards = state.players[q].dev_cards
        /\ \A q \in Players(state) :
              CardsOfType(state'.players[q].dev_cards, "victory_point")
                  >= CardsOfType(state.players[q].dev_cards, "victory_point")

\* C32 -- Dev-card timing: within one turn of a player (from their
\* ROLL_DICE to their END_TURN) at most one of PLAY_KNIGHT,
\* PLAY_ROAD_BUILDING, PLAY_YEAR_OF_PLENTY, PLAY_MONOPOLY is legal and
\* taken; a card bought with BUY_DEV_CARD in that turn sits in
\* new_dev_cards and cannot enable a play action until the END_TURN of that
\* turn has promoted it; victory_point cards are never playable; and each
\* play removes exactly one card of the played type from the player's
\* playable collection.
DevCardTiming == []PlayOffered /\ [][PlayStep]_vars

\* a card was played this turn and another card of the same kind was
\* bought after it: it waits in new_dev_cards and no play is offered
DevCardTimingWitness ==
    /\ state.phase = "TRADE_BUILD_PLAY"
    /\ state.players[state.current_player].has_played_dev_card_this_turn
    /\ state.players[state.current_player].knights_played >= 1
    /\ CardsOfType(state.players[state.current_player].new_dev_cards, "knight") >= 1
    /\ call.action = <<"BUY_DEV_CARD">>

RoadsOf(s, p) == {eid \in Edges(s) : s.edge_roads[eid] = p}

\* an edge without a road that an endpoint makes accessible to p
FreeRoadEdges(s, p) ==
    {e \in Edges(s) : RoadConditions(s, p, e, FALSE, TRUE)}

RoadBuildingPlay ==
    LET p == state.current_player
        n == Min(2, state.players[p].remaining_roads)
    IN  call'.action = <<"PLAY_ROAD_BUILDING">> =>
            /\ CardsOfType(state'.players[p].dev_cards, "road_building")
                  = CardsOfType(state.players[p].dev_cards, "road_building") - 1
            /\ Len(state'.players[p].dev_cards) = Len(state.players[p].dev_cards) - 1
            /\ state'.edge_roads = state.edge_roads
            /\ state'.players[p].remaining_roads = state.players[p].remaining_roads
            /\ state'.players[p].resources = state.players[p].resources
            /\ state'.bank = state.bank
            /\ IF n = 0
               THEN /\ state'.phase = "TRADE_BUILD_PLAY"
                    /\ state'.road_building_roads_left = state.road_building_roads_left
               ELSE /\ state'.phase = "ROAD_BUILDING_PLACE"
                    /\ state'.road_building_roads_left = n

RoadBuildingPlace ==
    LET p == state.current_player
    IN  call'.action[1] = "PLACE_ROAD_BUILDING_ROAD" =>
            /\ state.phase = "ROAD_BUILDING_PLACE"
            /\ state.edge_roads[call'.action[2]] = None
            /\ state'.edge_roads = [state.edge_roads EXCEPT ![call'.action[2]] = p]
            /\ state'.players[p].remaining_roads = state.players[p].remaining_roads - 1
            /\ \A q \in Players(state) : state'.players[q].resources = state.players[q].resources
            /\ state'.bank = state.bank
            /\ state'.current_player = p
            /\ IF state.road_building_roads_left = 1
               THEN /\ state'.phase = "TRADE_BUILD_PLAY"
                    /\ state'.road_building_roads_left = 0
               ELSE IF FreeRoadEdges(state', p) = {} \/ state'.players[p].remaining_roads = 0
               THEN /\ state'.phase = "TRADE_BUILD_PLAY"
                    /\ state'.road_building_roads_left = 0
               ELSE /\ state'.phase = "ROAD_BUILDING_PLACE"
                    /\ state'.road_building_roads_left = state.road_building_roads_left - 1

\* C33 -- Road-building card: PLAY_ROAD_BUILDING consumes the card and
\* sets road_building_roads_left to min(2, remaining_roads); if that is 0
\* the phase stays TRADE_BUILD_PLAY; otherwise each
\* PLACE_ROAD_BUILDING_ROAD places one road of the current player,
\* decrements remaining_roads by 1 and leaves the player's hand and the
\* bank unchanged (no cost); the phase returns to TRADE_BUILD_PLAY after
\* the last forced road, or earlier with road_building_roads_left reset to
\* 0 when no free-road edge remains; at most 2 roads are placed per card.
RoadBuildingCard ==
    /\ [][RoadBuildingPlay /\ RoadBuildingPlace]_vars
    /\ [](/\ state.road_building_roads_left \in 0..2
          /\ state.phase = "ROAD_BUILDING_PLACE" => state.road_building_roads_left \in 1..2
          /\ \A p \in Players(state) :
                Cardinality(RoadsOf(state, p)) <= Cardinality(RoadsOf(held, p)) + 2)

\* player 2 placed its first free road on edge 5, which ends between two
\* roads of player 0; edge 46 is taken as well, so the second road is
\* dropped with thirteen roads left to place
RoadBuildingCardWitness ==
    /\ caller = "road_building"
    /\ call.action = <<"PLACE_ROAD_BUILDING_ROAD", 5>>
    /\ state.current_player = 2
    /\ state.phase = "TRADE_BUILD_PLAY"
    /\ state.road_building_roads_left = 0
    /\ state.players[2].remaining_roads = 12
    /\ state.players[2].dev_cards = <<>>
    /\ held.edge_roads[5] = None
    /\ Cardinality(RoadsOf(state, 2)) = Cardinality(RoadsOf(held, 2)) + 1

BankSuppliesPair(s) ==
    \/ \E r \in ResSet : s.bank[r] >= 2
    \/ \E r1, r2 \in ResSet : r1 # r2 /\ s.bank[r1] >= 1 /\ s.bank[r2] >= 1

\* C35 -- Deadlock freedom: in every state reachable from reset() by
\* legal actions whose phase is not GAME_OVER, get_legal_actions() is
\* non-empty; in particular ROAD_BUILDING_PLACE is never entered or kept
\* when the current player has no unoccupied edge with an accessible
\* endpoint, YEAR_OF_PLENTY_PICK is never entered when the bank cannot
\* supply any pair of cards, SETUP_PLACE_ROAD always has a free edge at the
\* just-placed settlement, and SETUP_PLACE_SETTLEMENT always has a free
\* vertex satisfying the distance rule.
DeadlockFreedom ==
    /\ state.phase # "GAME_OVER" => get_legal_actions(state) # {}
    /\ state.phase = "ROAD_BUILDING_PLACE" => FreeRoadEdges(state, state.current_player) # {}
    /\ state.phase = "YEAR_OF_PLENTY_PICK" => BankSuppliesPair(state)
    /\ state.phase = "SETUP_PLACE_ROAD" =>
          /\ state.last_placed_vertex # None
          /\ \E e \in state.topology.vertex_adjacent_edges[state.last_placed_vertex] :
                state.edge_roads[e] = None
    /\ state.phase = "SETUP_PLACE_SETTLEMENT" =>
          \E v \in Vertices(state) :
              /\ state.vertex_buildings[v] = NoBuilding
              /\ \A w \in state.topology.vertex_adjacent_vertices[v] :
                    state.vertex_buildings[w] = NoBuilding

\* the game is not over and player 2, all its road ends shut in by the
\* roads of the others, is to place a road: nothing can be played
DeadlockFreedomWitness ==
    /\ state.phase # "GAME_OVER"
    /\ state.phase = "ROAD_BUILDING_PLACE"
    /\ state.current_player = 2
    /\ FreeRoadEdges(state, 2) = {}
    /\ RoadsOf(state, 2) = {4, 45}
    /\ state.edge_roads[3] = 1 /\ state.edge_roads[5] = 0
    /\ state.edge_roads[46] = 0 /\ state.edge_roads[48] = 1
    /\ get_legal_actions(state) = {}

\* C36 -- Stored longest-road length is current: in every state reachable
\* by legal actions, if longest_road_player is a player H then
\* longest_road_length equals calculate_longest_road(state, H) and is >= 5
\* and no other player's computed length exceeds it; if longest_road_player
\* is None then longest_road_length is 0 and no player has a computed
\* length >= 5.  In particular the stored length does not stay at an old
\* larger value after an opponent's settlement shortens the holder's road
\* to a length that is still >= 5.
LongestRoadCurrent ==
    LET H == state.longest_road_player
    IN  IF H # None
        THEN /\ state.longest_road_length = calculate_longest_road(state, H)
             /\ state.longest_road_length >= MIN_LONGEST_ROAD
             /\ \A p \in Players(state) \ {H} :
                   calculate_longest_road(state, p) <= state.longest_road_length
        ELSE /\ state.longest_road_length = 0
             /\ \A p \in Players(state) :
                   calculate_longest_road(state, p) < MIN_LONGEST_ROAD

\* the settlement of player 1 on vertex 47 has cut the road of the holder,
\* player 0, from six edges to five, and the stored length is still six
LongestRoadCurrentWitness ==
    /\ state.longest_road_player = 0
    /\ state.vertex_buildings[47] = <<"settlement", 1>>
    /\ state.edge_roads[62] = 0 /\ state.edge_roads[68] = 0
    /\ calculate_longest_road(state, 0) = 5
    /\ state.longest_road_length = 6
    /\ state.longest_road_length # calculate_longest_road(state, state.longest_road_player)

\* the vertices where p has a building of the kind
OnBoard(s, p, kind) == {v \in Vertices(s) : s.vertex_buildings[v] = <<kind, p>>}

PiecesCounted ==
    \A p \in Players(state) :
        /\ state.players[p].remaining_settlements
              + Cardinality(OnBoard(state, p, "settlement")) = MAX_SETTLEMENTS
        /\ state.players[p].remaining_cities
              + Cardinality(OnBoard(state, p, "city")) = MAX_CITIES
        /\ state.players[p].remaining_roads + Cardinality(RoadsOf(state, p)) = MAX_ROADS

PiecesStay ==
    /\ \A e \in Edges(state) :
          state.edge_roads[e] # None => state'.edge_roads[e] = state.edge_roads[e]
    /\ \A v \in Vertices(state) :
          state.vertex_buildings[v] # NoBuilding
              => /\ state'.vertex_buildings[v] # NoBuilding
                 /\ state'.vertex_buildings[v][2] = state.vertex_buildings[v][2]

\* C37 -- Piece accounting: in every state reachable by legal actions, for
\* every player p, remaining_settlements + (settlements of p on the board)
\* = 5, remaining_cities + (cities of p on the board) = 4, and
\* remaining_roads + (edges whose road is owned by p) = 15; no action ever
\* removes a road, changes a road's owner, removes a building or changes a
\* building's owner.
PieceAccounting == []PiecesCounted /\ [][PiecesStay]_vars

\* player 0 has just made its settlement on vertex 19 a city, and has
\* built roads beyond the two of the setup
PieceAccountingWitness ==
    /\ call.action = <<"BUILD_CITY", 19>>
    /\ state.vertex_buildings[19] = <<"city", 0>>
    /\ state.players[0].remaining_cities = 3
    /\ state.players[0].remaining_settlements = 4
    /\ Cardinality(OnBoard(state, 0, "settlement")) = 1
    /\ state.players[0].remaining_roads < 13

StealOffered ==
    state.phase = "STEAL" =>
        LET targets == get_steal_targets(state, state.robber_hex, state.current_player)
            legal == get_legal_actions(state)
        IN  /\ targets # {}
            /\ legal = {<<"STEAL_RESOURCE", t>> : t \in targets}
            /\ <<"STEAL_RESOURCE", None>> \notin legal

StealStep ==
    call'.action[1] = "STEAL_RESOURCE" =>
        LET thief == state.current_player
            victim == call'.action[2]
            cards(s, p) == total_resources(s.players[p].resources)
        IN  /\ state.phase = "STEAL"
            /\ victim \in Players(state) \ {thief}
            /\ cards(state', thief) = cards(state, thief) + 1
            /\ cards(state', victim) = cards(state, victim) - 1
            /\ \A p \in Players(state) \ {thief, victim} :
                  state'.players[p].resources = state.players[p].resources
            /\ state'.bank = state.bank

\* C38 -- No-op steal is unreachable: in every state with phase STEAL that
\* is reachable by legal actions, get_steal_targets for the robber hex and
\* the current player is non-empty, so the legal actions are exactly
\* STEAL_RESOURCE(t) for those targets and the no-op action
\* STEAL_RESOURCE(None) is never offered; consequently every pass through
\* STEAL transfers exactly one card.
NoNoOpSteal == []StealOffered /\ [][StealStep]_vars

\* the roller of a seven has stolen a card from a player living around the
\* hex the robber was moved to
NoNoOpStealWitness ==
    /\ LastActionType = "STEAL_RESOURCE"
    /\ call.action[2] \in Players(state) \ {state.current_player}
    /\ state.phase = "TRADE_BUILD_PLAY"
    /\ \E v \in HexVertexSet(state, state.robber_hex) :
          state.vertex_buildings[v] # NoBuilding /\ state.vertex_buildings[v][2] = call.action[2]

DiscardQueue ==
    LET need == state.players_needing_discard
    IN  /\ need # <<>> <=> state.phase = "DISCARD"
        /\ state.phase = "DISCARD" =>
              /\ \A i \in DOMAIN need :
                    /\ need[i] \in Players(state)
                    /\ total_resources(state.players[need[i]].resources) > 7
              /\ \A i, j \in DOMAIN need : i < j => need[i] < need[j]

RollerStays ==
    (call'.action[1] = "ROLL_DICE" \/ state.phase \in {"DISCARD", "MOVE_ROBBER", "STEAL"}) =>
        /\ state'.current_player = state.current_player
        /\ state.phase = "DISCARD" => state'.phase \in {"DISCARD", "MOVE_ROBBER"}
        /\ state.phase = "MOVE_ROBBER" => state'.phase \in {"STEAL", "TRADE_BUILD_PLAY"}
        /\ state.phase = "STEAL" => state'.phase = "TRADE_BUILD_PLAY"

\* C39 -- Discard-queue consistency: in every state reachable by legal
\* actions, players_needing_discard is non-empty exactly when the phase is
\* DISCARD; in DISCARD it is a strictly ascending list of distinct player
\* indices, every player in it holds more than 7 cards, and current_player
\* (the roller) stays unchanged from the roll of 7 through DISCARD,
\* MOVE_ROBBER and STEAL until TRADE_BUILD_PLAY.
DiscardQueueConsistency == []DiscardQueue /\ [][RollerStays]_vars

\* a seven has been rolled and two players hold more than seven cards:
\* both wait to discard
DiscardQueueConsistencyWitness ==
    /\ LastActionType = "ROLL_DICE"
    /\ state.last_roll[1] + state.last_roll[2] = 7
    /\ state.phase = "DISCARD"
    /\ Len(state.players_needing_discard) = 2

\* C40 -- Largest-army size is current: in every state reachable by legal
\* actions, if largest_army_player is a player H then largest_army_size
\* equals H's knights_played, is >= 3, and every other player's
\* knights_played is <= largest_army_size; if largest_army_player is None
\* then largest_army_size is 0 and every player's knights_played is < 3.
LargestArmyCurrent ==
    LET H == state.largest_army_player
    IN  IF H # None
        THEN /\ state.largest_army_size = state.players[H].knights_played
             /\ state.largest_army_size >= MIN_LARGEST_ARMY
             /\ \A p \in Players(state) \ {H} :
                   state.players[p].knights_played <= state.largest_army_size
        ELSE /\ state.largest_army_size = 0
             /\ \A p \in Players(state) :
                   state.players[p].knights_played < MIN_LARGEST_ARMY

\* player 0 holds the award and has played a fourth knight since it took
\* it; player 1 has played three
LargestArmyCurrentWitness ==
    /\ call.action = <<"PLAY_KNIGHT">>
    /\ state.largest_army_player = 0
    /\ state.largest_army_size = 4
    /\ state.players[0].knights_played = 4
    /\ state.players[1].knights_played = 3

====
